---------------------------- MODULE Spec2Model ----------------------------
(***************************************************************************)
(* A model of the KGQL core: the key-state resolver                        *)
(* (kgql/temporal/resolver.py), the query planner                          *)
(* (kgql/translator/planner.py) and the trust-path analyzer                *)
(* (kgql/trust_path/analyzer.py).                                          *)
(*                                                                         *)
(* Python's Optional[T] is modelled as a sequence of length 0 or 1:        *)
(* None is <<>> and a present value x is <<x>>.  A dict is a function      *)
(* whose DOMAIN is the set of keys present.                                *)
(***************************************************************************)
EXTENDS Integers, Sequences, FiniteSets, TLC

None == <<>>

Some(x) == <<x>>

\* The values of an Optional over S.
Opt(S) == {None} \cup {Some(x) : x \in S}

EmptyDict == [k \in {} |-> None]

(***************************************************************************)
(* KEY-STATE RESOLVER                                                      *)
(***************************************************************************)

\* Highest sequence number the model draws.
MaxSeq == 1

Aids == {"E1", "E2"}

Seqs == 0 .. MaxSeq

\* Contents of a key state (the signing keys) as the injected lookup or a
\* caller of register may supply them for an identifier.  The resolver
\* treats all identifiers alike, so two different contents are drawn for one
\* of them only; the other is there to show that identifiers do not mix.
KeySets(aid) == IF aid = "E1" THEN {"k1", "k2"} ELSE {"k1"}

OptSeqs == Opt(Seqs)

\* What the injected lookup hands back for (aid, seq): None, or a kever with
\* its sequence number sn and its verfers.  Its prefixer is the requested
\* aid; asked for a sequence number it answers with the state at that
\* number, asked for none with the state at any number.
Kevers(aid, seq) ==
    [sn : IF seq # None THEN {seq[1]} ELSE Seqs, verfers : KeySets(aid)]

VARIABLES
    _get_kever,   \* "none" or "getter": whether a lookup function was injected
    _cache,       \* dict (aid, seq) -> KeyStateSnapshot
    _current,     \* dict aid -> KeyStateSnapshot
    ret,          \* the last call of the resolver and what it returned
    resolved,     \* keys (aid, seq) that resolve(aid, seq) has returned a
                  \* snapshot for since construction or the last clear_cache
    seen          \* per aid, the sequence numbers resolved or registered
                  \* since construction or the last clear_cache

resolverVars == <<_get_kever, _cache, _current, ret, resolved, seen>>

VARIABLES
    query,        \* the KGQLQuery handed to plan(), None when there is none
    planned       \* the ExecutionPlan that plan() returned for it

plannerVars == <<query, planned>>

VARIABLES
    _neighbor_fn, \* None, or the graph the injected neighbor function reads
    call,         \* the search in progress or last finished, and its arguments
    work,         \* the queue of shortest_path or the stack of find_paths
    paths,        \* the paths find_paths has collected
    returned,     \* what the search returned: an Optional[VerifiedPath] of
                  \* shortest_path or the list of find_paths
    pc            \* "idle", "bfs", "dfs" (inside the while loop) or "done"

analyzerVars == <<_neighbor_fn, call, work, paths, returned, pc>>

VARIABLES
    operands,     \* the (actual, required) pairs a caller of
                  \* operator_satisfies is going to ask about, in order
    verdicts      \* what operator_satisfies answered for them so far

operatorVars == <<operands, verdicts>>

VARIABLES
    verdict,      \* the last call of the TemporalVerifier and the
                  \* TemporalCheckResult it returned, None when there is none
    edge_check    \* the check_edge_at_keystate call in progress between its
                  \* two resolutions, None when there is none

verifierVars == <<verdict, edge_check>>

VARIABLES
    _resolve_fn,      \* FrameworkResolver: None, or the credential store read
                      \* by the injected credential resolver
    _framework_cache, \* FrameworkResolver._cache: said -> GovernanceFramework
    _superseded_by,   \* FrameworkResolver._superseded_by: old said -> new said
    registration,     \* the saids passed to register() since the cache was
                      \* last empty, in the order of their first registration
    explicit,         \* whether register_supersession() was called since then
    answer            \* the last call of the FrameworkResolver and its result

governanceVars ==
    <<_resolve_fn, _framework_cache, _superseded_by, registration, explicit, answer>>

VARIABLES
    query_string, \* the query text handed to parse(), as its derivation in
                  \* the grammar; None when there is none
    parsed        \* the KGQLQuery that parse() returned for it

parserVars == <<query_string, parsed>>

vars ==
    <<resolverVars, plannerVars, analyzerVars, operatorVars, verifierVars,
      governanceVars, parserVars>>

KeyStateSnapshot(aid, seq, keys) == [aid |-> aid, seq |-> seq, keys |-> keys]

Snapshots ==
    UNION {[aid : {a}, seq : Seqs, keys : KeySets(a)] : a \in Aids}

cache_key(snapshot) == <<snapshot.aid, snapshot.seq>>

\* KeyStateSnapshot.from_kever for a kever of the requested aid.
from_kever(aid, kever, seq) == KeyStateSnapshot(aid, seq, kever.verfers)

\* A call of the resolver as its caller observes it: the operation and its
\* arguments, the returned Optional[KeyStateSnapshot], what the injected
\* lookup did during the call ("not called", "nothing", "kever"), and, when
\* the call directly before it was a resolve of the same (aid, seq) that
\* returned a snapshot, that earlier call's result and lookup.
Call(op, aid, seq, result, lookup, after) ==
    [op |-> op, aid |-> aid, seq |-> seq, result |-> result,
     lookup |-> lookup, after |-> after]

\* The preceding call, if it was a successful resolve of the same (aid, seq).
Preceding(aid, seq) ==
    IF /\ seq # None
       /\ ret.op = "resolve" /\ ret.aid = aid /\ ret.seq = seq
       /\ ret.result # None
    THEN Some([result |-> ret.result[1], lookup |-> ret.lookup])
    ELSE None

ResolverStart ==
    /\ _get_kever \in {"none", "getter"}
    /\ _cache = EmptyDict
    /\ _current = EmptyDict
    /\ ret = Call("init", "", None, None, "not called", None)
    /\ resolved = {}
    /\ seen = [a \in Aids |-> {}]

\* cache_hit with the cache check left out: every request goes to the lookup.
cache_hit_never(aid, seq) == FALSE

\* cache_hit with the 'current' index left out: only a request with a
\* sequence number can be served from a cache.
cache_hit_seq_only(aid, seq) ==
    seq # None /\ <<aid, seq[1]>> \in DOMAIN _cache

\* resolve, lines 133-140: is the request served from a cache?
cache_hit(aid, seq) ==
    IF seq # None
    THEN <<aid, seq[1]>> \in DOMAIN _cache
    ELSE aid \in DOMAIN _current

cached_snapshot(aid, seq) ==
    IF seq # None THEN _cache[<<aid, seq[1]>>] ELSE _current[aid]

\* update_current without the comparison of sequence numbers: the latest
\* snapshot stored becomes the current one.
update_current_always(cur, aid, snapshot) == (aid :> snapshot) @@ cur

\* The update of the current-state tracker after a snapshot is stored.
update_current(cur, aid, snapshot) ==
    IF aid \notin DOMAIN cur \/ snapshot.seq >= cur[aid].seq
    THEN (aid :> snapshot) @@ cur
    ELSE cur

\* resolve, lines 152-157: store a freshly built snapshot.
resolve_store(aid, actual_seq, snapshot) ==
    /\ _cache' = (<<aid, actual_seq>> :> snapshot) @@ _cache
    /\ _current' = update_current(_current, aid, snapshot)

Noted(aid, seq, snapshot) ==
    /\ resolved' = IF seq # None THEN resolved \cup {<<aid, seq[1]>>} ELSE resolved
    /\ seen' = [seen EXCEPT ![aid] = @ \cup {snapshot.seq}]

\* resolve(aid, seq) answered from _cache or _current.
resolve_hit(aid, seq) ==
    /\ cache_hit(aid, seq)
    /\ ret' = Call("resolve", aid, seq, Some(cached_snapshot(aid, seq)),
                    "not called", Preceding(aid, seq))
    /\ Noted(aid, seq, cached_snapshot(aid, seq))
    /\ UNCHANGED <<_get_kever, _cache, _current>>

\* resolve(aid, seq) on a miss with no lookup function configured.
resolve_no_getter(aid, seq) ==
    /\ ~cache_hit(aid, seq)
    /\ _get_kever = "none"
    /\ ret' = Call("resolve", aid, seq, None, "not called", None)
    /\ UNCHANGED <<_get_kever, _cache, _current, resolved, seen>>

\* lookup_nothing caching a placeholder snapshot for the key that was not
\* found.
lookup_nothing_cached(aid, seq) ==
    /\ ret' = Call("resolve", aid, seq, None, "nothing", None)
    /\ _cache' = (<<aid, 0>> :> KeyStateSnapshot(aid, 0, "k1")) @@ _cache
    /\ UNCHANGED <<_current, resolved, seen>>

\* resolve, lines 146-147: the lookup returned None.
lookup_nothing(aid, seq) ==
    /\ ret' = Call("resolve", aid, seq, None, "nothing", None)
    /\ UNCHANGED <<_cache, _current, resolved, seen>>

\* resolve(aid, seq) on a miss: the lookup is called and returns kever.
resolve_lookup(aid, seq, kever) ==
    /\ ~cache_hit(aid, seq)
    /\ _get_kever = "getter"
    /\ IF kever = None
       THEN lookup_nothing(aid, seq)
       ELSE LET actual_seq == IF seq # None THEN seq[1] ELSE kever[1].sn
                snapshot == from_kever(aid, kever[1], actual_seq)
            IN  /\ resolve_store(aid, actual_seq, snapshot)
                /\ ret' = Call("resolve", aid, seq, Some(snapshot), "kever",
                                Preceding(aid, seq))
                /\ Noted(aid, seq, snapshot)
    /\ UNCHANGED _get_kever

resolve(aid, seq) ==
    \/ resolve_hit(aid, seq)
    \/ resolve_no_getter(aid, seq)
    \/ \E kever \in Opt(Kevers(aid, seq)) : resolve_lookup(aid, seq, kever)

\* register, lines 182-186.
register_store(snapshot) ==
    /\ _cache' = (cache_key(snapshot) :> snapshot) @@ _cache
    /\ _current' = update_current(_current, snapshot.aid, snapshot)

register(snapshot) ==
    /\ register_store(snapshot)
    /\ ret' = Call("register", snapshot.aid, Some(snapshot.seq), None,
                    "not called", None)
    /\ seen' = [seen EXCEPT ![snapshot.aid] = @ \cup {snapshot.seq}]
    /\ UNCHANGED <<_get_kever, resolved>>

\* clear_cache clearing the snapshot cache only.
clear_cache_snapshots_only ==
    /\ _cache' = EmptyDict
    /\ _current' = _current
    /\ ret' = Call("clear_cache", "", None, None, "not called", None)
    /\ resolved' = {}
    /\ seen' = [a \in Aids |-> {}]
    /\ UNCHANGED _get_kever

clear_cache ==
    /\ _cache' = EmptyDict
    /\ _current' = EmptyDict
    /\ ret' = Call("clear_cache", "", None, None, "not called", None)
    /\ resolved' = {}
    /\ seen' = [a \in Aids |-> {}]
    /\ UNCHANGED _get_kever

(***************************************************************************)
(* QUERY PLANNER                                                           *)
(***************************************************************************)

\* Longest pattern list of a MATCH and longest condition list of a WHERE
\* that the model draws.
MaxPatterns == 2

MaxConditions == 2

\* EdgeOperator values.
EdgeOperators == {"I2I", "DI2I", "NI2I", "ANY"}

\* MethodType values (planner.py lines 30-36).
REGER_INDEX == "reger_index"

REGER_CLONE == "reger_clone"

REGER_SOURCES == "reger_sources"

VERIFIER_CHAIN == "verifier_chain"

KEVER_STATE == "kever_state"

SeqsUpTo(S, n) == UNION {[1 .. k -> S] : k \in 0 .. n}

KeyStateContexts == {[aid |-> "EAID_123", seq |-> s] : s \in {None, Some(5)}}

GovernanceContexts == {[framework |-> "EFrameworkSAID"]}

NodePatterns == {[variable |-> Some("c"), node_type |-> t] :
                    t \in {Some("Credential"), Some("Decision")}}

EdgePatterns == {[edge_type |-> Some("iss"), operator |-> o, direction |-> "outgoing"] :
                    o \in {"ANY", "I2I"}}

\* A field reference is its dotted path, one element per segment.
Fields == {<<"c", "issuer">>, <<"c", "schema">>, <<"c", "name">>}

Conditions == [field : Fields, comparator : {"=", "!="}, value : {"v1"},
               negated : {FALSE}]

MatchOperations ==
    {[patterns |-> ps] :
        ps \in SeqsUpTo(NodePatterns \X Opt(EdgePatterns), MaxPatterns) \ {<<>>}}

WhereClauses == {[conditions |-> cs] : cs \in SeqsUpTo(Conditions, MaxConditions)}

ResolveOperations == [said : {"ESAID"}, is_variable : BOOLEAN]

\* The start of a TRAVERSE as the grammar allows it (traverse_source): a
\* literal or a variable, both kept in from_said, or a node pattern.
TraverseSources ==
    {[from_said |-> Some(x), from_pattern |-> None] : x \in {"E1", "$start"}}
    \cup {[from_said |-> None, from_pattern |-> Some(n)] : n \in NodePatterns}

\* The target of a TRAVERSE: none, a literal, or a node pattern.
TraverseTargets ==
    {[to_said |-> None, to_pattern |-> None],
     [to_said |-> Some("E2"), to_pattern |-> None]}
    \cup {[to_said |-> None, to_pattern |-> Some(n)] : n \in NodePatterns}

TraverseOperations ==
    {[from_said |-> src.from_said, from_pattern |-> src.from_pattern,
      to_said |-> tgt.to_said, to_pattern |-> tgt.to_pattern,
      via_edge |-> via, follow_type |-> follow] :
        src \in TraverseSources, tgt \in TraverseTargets,
        via \in Opt(EdgePatterns), follow \in Opt({"edge"})}

VerifyOperations ==
    [said : {"ECred_SAID"}, is_variable : BOOLEAN,
     against_keystate : Opt({[aid |-> "EAID_AGAINST", seq |-> Some(7)]})]

WithOptions == {[include_proof |-> TRUE, include_keystate |-> TRUE,
                 include_sources |-> FALSE]}

OrderClauses == {[field |-> <<"c", "issued">>, direction |-> "DESC"]}

ReturnClauses == {[items |-> <<[expression |-> "c.said"], [expression |-> "c.issuer"]>>]}

\* The modifiers other than WHERE, either all absent or all present, with
\* every LIMIT of the model.
Modifiers ==
    {[with_options |-> None, order_by |-> None, limit |-> l, return_clause |-> None] :
        l \in Opt({0, 10})}
    \cup
    {[with_options |-> Some(w), order_by |-> Some(o), limit |-> l,
      return_clause |-> Some(r)] :
        w \in WithOptions, o \in OrderClauses, l \in Opt({0, 10}), r \in ReturnClauses}

\* The WHERE clauses with at most one condition.
ShortWhereClauses == {w \in WhereClauses : Len(w.conditions) <= 1}

\* The operation fields of a query and its WHERE clause: exactly one
\* operation is set; WHERE is drawn for MATCH, the operation that reads it:
\* every WHERE clause for a single pattern, and a clause of at most one
\* condition for every list of patterns.
Operations ==
    {[match |-> Some(m), resolve |-> None, traverse |-> None, verify |-> None,
      where |-> w] :
        m \in {mo \in MatchOperations : Len(mo.patterns) = 1}, w \in Opt(WhereClauses)}
    \cup
    {[match |-> Some(m), resolve |-> None, traverse |-> None, verify |-> None,
      where |-> w] : m \in MatchOperations, w \in Opt(ShortWhereClauses)}
    \cup
    {[match |-> None, resolve |-> Some(r), traverse |-> None, verify |-> None,
      where |-> None] : r \in ResolveOperations}
    \cup
    {[match |-> None, resolve |-> None, traverse |-> Some(t), verify |-> None,
      where |-> None] : t \in TraverseOperations}
    \cup
    {[match |-> None, resolve |-> None, traverse |-> None, verify |-> Some(v),
      where |-> None] : v \in VerifyOperations}

KGQLQuery(ks, gov, op, mod) ==
    [keystate_context |-> ks, governance_context |-> gov,
     match |-> op.match, resolve |-> op.resolve, traverse |-> op.traverse,
     verify |-> op.verify, where |-> op.where,
     with_options |-> mod.with_options, order_by |-> mod.order_by,
     limit |-> mod.limit, return_clause |-> mod.return_clause]

\* The operations with at most one pattern and at most one condition.
SimpleOperations ==
    {op \in Operations :
        op.match # None =>
            /\ Len(op.match[1].patterns) = 1
            /\ op.where # None => Len(op.where[1].conditions) <= 1}

NoModifiers ==
    [with_options |-> None, order_by |-> None, limit |-> None,
     return_clause |-> None]

\* The queries planned: every operation without scope and modifiers, and
\* every simple operation under every scope and every setting of the
\* modifiers (plan() handles scope and modifiers apart from the operation).
Queries ==
    {KGQLQuery(None, None, op, NoModifiers) : op \in Operations}
    \cup
    {KGQLQuery(ks, gov, op, mod) :
        ks \in Opt(KeyStateContexts), gov \in Opt(GovernanceContexts),
        op \in SimpleOperations, mod \in Modifiers}

PlanStep(method_type, method_name, args, depends_on, result_key) ==
    [method_type |-> method_type, method_name |-> method_name, args |-> args,
     depends_on |-> depends_on, result_key |-> result_key]

\* QueryPlanner._index_map: (node_type, field_name) -> (index, method) or None.
_index_map ==
    (<<"Credential", "issuer">> :> Some(<<"issus", "getIter">>)) @@
    (<<"Credential", "subject">> :> Some(<<"subjs", "getIter">>)) @@
    (<<"Credential", "schema">> :> Some(<<"schms", "getIter">>)) @@
    (<<"Session", "agent_aid">> :> Some(<<"issus", "getIter">>)) @@
    (<<"Turn", "session">> :> Some(<<"issus", "getIter">>)) @@
    (<<"Decision", "topic">> :> None)

_extract_condition_value(condition) == condition.value

\* _conditions_to_filter: a dict keyed by field; a later condition on the
\* same field overwrites the earlier one.
RECURSIVE _conditions_to_filter(_)
_conditions_to_filter(conditions) ==
    IF conditions = <<>>
    THEN EmptyDict
    ELSE LET n == Len(conditions)
             cond == conditions[n]
         IN  (cond.field :> [op |-> cond.comparator, value |-> cond.value,
                             negated |-> cond.negated])
             @@ _conditions_to_filter(SubSeq(conditions, 1, n - 1))

\* The loop of _find_index_for_match over where.conditions from index i on:
\* the step of the first condition whose (node_type, field_name) has an
\* index, or None when the loop falls through.
RECURSIVE indexed_condition_step(_, _, _)
indexed_condition_step(node, conditions, i) ==
    IF i > Len(conditions)
    THEN None
    ELSE LET condition == conditions[i]
             field_parts == condition.field
             field_name == field_parts[Len(field_parts)]
             node_type == IF node.node_type # None THEN node.node_type[1] ELSE "None"
             index_key == <<node_type, field_name>>
         IN  IF index_key \in DOMAIN _index_map /\ _index_map[index_key] # None
             THEN LET index_info == _index_map[index_key][1]
                  IN  Some(PlanStep(REGER_INDEX, index_info[2],
                                    [index |-> index_info[1],
                                     keys |-> _extract_condition_value(condition)],
                                    <<>>, index_info[1]))
             ELSE indexed_condition_step(node, conditions, i + 1)

_find_index_for_match(node, where) ==
    IF where = None \/ where[1].conditions = <<>>
    THEN PlanStep(REGER_INDEX, "getItemIter", [index |-> "creds"], <<>>, "all_creds")
    ELSE LET found == indexed_condition_step(node, where[1].conditions, 1)
         IN  IF found # None
             THEN found[1]
             ELSE PlanStep(REGER_INDEX, "getItemIter",
                           [index |-> "creds",
                            filter |-> _conditions_to_filter(where[1].conditions)],
                           <<>>, "filtered_creds")

\* depends_on_last naming the index that the new step itself will get.
depends_on_next(steps) == IF steps # <<>> THEN <<Len(steps)>> ELSE <<>>

\* depends_on=[len(plan.steps) - 1] if plan.steps else [] (0-based indices).
depends_on_last(steps) == IF steps # <<>> THEN <<Len(steps) - 1>> ELSE <<>>

\* plan_pattern adding the chain-verification step for every edge, an ANY
\* edge included.
plan_pattern_every_edge_verified(steps, node, edge, where) ==
    LET with_index == Append(steps, _find_index_for_match(node, where))
    IN  IF edge # None
        THEN Append(with_index,
                    PlanStep(VERIFIER_CHAIN, "verifyChain",
                             [operator |-> edge[1].operator],
                             depends_on_last(with_index), "verified_edges"))
        ELSE with_index

\* The body of the for loop of _plan_match for one (node, edge) pattern.
plan_pattern(steps, node, edge, where) ==
    LET with_index == Append(steps, _find_index_for_match(node, where))
    IN  IF edge # None /\ edge[1].operator # "ANY"
        THEN Append(with_index,
                    PlanStep(VERIFIER_CHAIN, "verifyChain",
                             [operator |-> edge[1].operator],
                             depends_on_last(with_index), "verified_edges"))
        ELSE with_index

RECURSIVE plan_patterns(_, _, _, _)
plan_patterns(steps, patterns, i, where) ==
    IF i > Len(patterns)
    THEN steps
    ELSE plan_patterns(plan_pattern(steps, patterns[i][1], patterns[i][2], where),
                       patterns, i + 1, where)

_plan_match(match, where, steps) == plan_patterns(steps, match.patterns, 1, where)

_plan_resolve(resolve_op, steps) ==
    Append(steps,
           PlanStep(REGER_CLONE, "cloneCred",
                    [said |-> resolve_op.said, is_variable |-> resolve_op.is_variable],
                    <<>>, "credential"))

_plan_traverse(traverse, steps) ==
    LET started ==
            IF traverse.from_said # None
            THEN Append(steps, PlanStep(REGER_CLONE, "cloneCred",
                                        [said |-> traverse.from_said[1]],
                                        <<>>, "start_cred"))
            ELSE steps
        via_operator == IF traverse.via_edge # None
                        THEN Some(traverse.via_edge[1].operator)
                        ELSE None
        base == [follow_type |-> traverse.follow_type, via_operator |-> via_operator]
        args == IF traverse.to_said # None \/ traverse.to_pattern # None
                THEN [follow_type |-> traverse.follow_type,
                      via_operator |-> via_operator,
                      target_said |-> traverse.to_said,
                      target_pattern |-> traverse.to_pattern]
                ELSE base
    IN  Append(started,
               PlanStep(REGER_SOURCES, "sources", args,
                        depends_on_last(started), "source_chain"))

\* _plan_verify leaving the key state out of the step.
_plan_verify_without_keystate(verify, keystate_ctx, steps) ==
    Append(steps,
           PlanStep(VERIFIER_CHAIN, "verifyChain",
                    [said |-> verify.said, is_variable |-> verify.is_variable,
                     keystate_aid |-> None, keystate_seq |-> None],
                    <<>>, "verification_result"))

_plan_verify(verify, keystate_ctx, steps) ==
    Append(steps,
           PlanStep(VERIFIER_CHAIN, "verifyChain",
                    [said |-> verify.said, is_variable |-> verify.is_variable,
                     keystate_aid |-> IF keystate_ctx # None
                                      THEN Some(keystate_ctx[1].aid) ELSE None,
                     keystate_seq |-> IF keystate_ctx # None
                                      THEN keystate_ctx[1].seq ELSE None],
                    <<>>, "verification_result"))

\* Python truthiness of an Optional[int]: None and 0 are both false.
Truthy(optint) == optint # None /\ optint[1] # 0

\* QueryPlanner.plan.
plan(q) ==
    [steps |->
        IF q.match # None THEN _plan_match(q.match[1], q.where, <<>>)
        ELSE IF q.resolve # None THEN _plan_resolve(q.resolve[1], <<>>)
        ELSE IF q.traverse # None THEN _plan_traverse(q.traverse[1], <<>>)
        ELSE IF q.verify # None
             THEN _plan_verify(q.verify[1],
                               IF q.verify[1].against_keystate # None
                               THEN q.verify[1].against_keystate
                               ELSE q.keystate_context,
                               <<>>)
        ELSE <<>>,
     return_fields |->
        IF q.return_clause # None
        THEN [i \in 1 .. Len(q.return_clause[1].items) |->
                 q.return_clause[1].items[i].expression]
        ELSE <<>>,
     include_proof |->
        IF q.with_options # None THEN q.with_options[1].include_proof ELSE FALSE,
     include_keystate |->
        IF q.with_options # None THEN q.with_options[1].include_keystate ELSE FALSE,
     limit |-> IF Truthy(q.limit) THEN q.limit ELSE None,
     order_by |-> IF q.order_by # None THEN Some(q.order_by[1].field) ELSE None,
     order_direction |->
        IF q.order_by # None THEN q.order_by[1].direction ELSE "ASC"]

\* No query is being planned.
PlannerIdle ==
    /\ query = None
    /\ planned = None

\* A caller holds a query AST that has not been planned yet.
PlannerInit ==
    /\ query \in {Some(q) : q \in Queries}
    /\ planned = None

\* plan_query(query): a planner is constructed and returns the plan.
plan_query ==
    /\ query # None
    /\ planned = None
    /\ planned' = Some(plan(query[1]))
    /\ UNCHANGED query

ResolverIdle ==
    /\ _get_kever = "none"
    /\ _cache = EmptyDict
    /\ _current = EmptyDict
    /\ ret = Call("init", "", None, None, "not called", None)
    /\ resolved = {}
    /\ seen = [a \in Aids |-> {}]

(***************************************************************************)
(* TRUST PATH ANALYZER                                                     *)
(***************************************************************************)

\* Largest max_depth that the model draws.
MaxDepth == 3

ROOT == "ROOT"

Nodes == {ROOT, "A", "B", "TARGET"}

Edge(source, target, edge_type, operator) ==
    [source |-> source, target |-> target, edge_type |-> edge_type,
     operator |-> operator]

\* The edges that the model's graphs are made of, in the order in which the
\* neighbor function lists them.  Against the filters "iss" and DI2I they
\* hold edges that pass both, that fail the edge-type filter only and that
\* fail the operator filter only; they form parallel edges, a direct edge,
\* two-step and three-step routes, a cycle through the root, a cycle
\* between intermediate identifiers and a self-loop.
EdgePool ==
    << Edge(ROOT, "A", "iss", "I2I"),
       Edge(ROOT, "A", "del", "I2I"),
       Edge(ROOT, "B", "iss", "NI2I"),
       Edge(ROOT, "TARGET", "iss", "DI2I"),
       Edge("A", "B", "iss", "DI2I"),
       Edge("A", "TARGET", "iss", "ANY"),
       Edge("A", ROOT, "iss", "I2I"),
       Edge("B", "TARGET", "iss", "I2I"),
       Edge("B", "A", "iss", "I2I"),
       Edge("B", "B", "iss", "I2I") >>

\* The graphs behind the neighbor function: every subset of EdgePool.
Graphs == {{EdgePool[i] : i \in I} : I \in SUBSET (1 .. Len(EdgePool))}

\* self._neighbor_fn(said): the outgoing edges of said, as a list.
neighbors(said) ==
    SelectSeq(EdgePool, LAMBDA e : e \in _neighbor_fn[1] /\ e.source = said)

\* _OPERATOR_STRENGTH with the ranks of DI2I and NI2I exchanged.
_OPERATOR_STRENGTH_exchanged == [ANY |-> 0, NI2I |-> 2, DI2I |-> 1, I2I |-> 3]

\* _OPERATOR_STRENGTH (checker.py lines 28-33).
_OPERATOR_STRENGTH == [ANY |-> 0, NI2I |-> 1, DI2I |-> 2, I2I |-> 3]

operator_satisfies(actual, required) ==
    _OPERATOR_STRENGTH[actual] >= _OPERATOR_STRENGTH[required]

PathStep(source_said, target_said, edge_type, operator) ==
    [source_said |-> source_said, target_said |-> target_said,
     edge_type |-> edge_type, operator |-> operator]

VerifiedPath(steps, root_said, target_said) ==
    [steps |-> steps, root_said |-> root_said, target_said |-> target_said]

depth(p) == Len(p.steps)

\* skipped without the test of the branch's visited set.
skipped_without_visited(edge, visited) ==
    \/ /\ call.edge_type_filter # None
       /\ edge.edge_type # call.edge_type_filter[1]
    \/ /\ call.operator_filter # None
       /\ ~operator_satisfies(edge.operator, call.operator_filter[1])

\* skipped without the operator filter.
skipped_any_operator(edge, visited) ==
    \/ edge.target \in visited
    \/ /\ call.edge_type_filter # None
       /\ edge.edge_type # call.edge_type_filter[1]

\* The three tests that make the search skip a candidate edge (analyzer.py
\* lines 187-194 and 253-260).
skipped(edge, visited) ==
    \/ edge.target \in visited
    \/ /\ call.edge_type_filter # None
       /\ edge.edge_type # call.edge_type_filter[1]
    \/ /\ call.operator_filter # None
       /\ ~operator_satisfies(edge.operator, call.operator_filter[1])

Entry(current, path, visited) ==
    [current |-> current, path |-> path, visited |-> visited]

SearchCall(fn, root_said, target_said, max_depth, edge_type_filter, operator_filter) ==
    [fn |-> fn, root_said |-> root_said, target_said |-> target_said,
     max_depth |-> max_depth, edge_type_filter |-> edge_type_filter,
     operator_filter |-> operator_filter]

NoCall == SearchCall("none", "", "", 0, None, None)

\* The arguments the model draws for a search.
SearchArgs ==
    [root_said : {ROOT}, target_said : Nodes, max_depth : 0 .. MaxDepth,
     edge_type_filter : Opt({"iss"}), operator_filter : Opt({"DI2I"})]

AnalyzerIdle ==
    /\ _neighbor_fn = None
    /\ call = NoCall
    /\ work = <<>>
    /\ paths = <<>>
    /\ returned = <<>>
    /\ pc = "idle"

\* An analyzer constructed over some graph, or with no neighbor function.
AnalyzerInit ==
    /\ _neighbor_fn \in Opt(Graphs)
    /\ call = NoCall
    /\ work = <<>>
    /\ paths = <<>>
    /\ returned = <<>>
    /\ pc = "idle"

\* shortest_path without the test of root against target: the search
\* starts from the root whatever the target is.
shortest_path_no_short_circuit(a) ==
    /\ pc = "idle"
    /\ call' = SearchCall("shortest_path", a.root_said, a.target_said, a.max_depth,
                          a.edge_type_filter, a.operator_filter)
    /\ paths' = <<>>
    /\ IF _neighbor_fn = None
       THEN /\ returned' = None
            /\ work' = <<>>
            /\ pc' = "done"
       ELSE /\ returned' = None
            /\ work' = <<Entry(a.root_said, <<>>, {a.root_said})>>
            /\ pc' = "bfs"
    /\ UNCHANGED _neighbor_fn

\* shortest_path up to the start of its while loop (lines 233-243).
shortest_path(a) ==
    /\ pc = "idle"
    /\ call' = SearchCall("shortest_path", a.root_said, a.target_said, a.max_depth,
                          a.edge_type_filter, a.operator_filter)
    /\ paths' = <<>>
    /\ IF _neighbor_fn = None
       THEN /\ returned' = None
            /\ work' = <<>>
            /\ pc' = "done"
       ELSE IF a.root_said = a.target_said
       THEN /\ returned' = Some(VerifiedPath(<<>>, a.root_said, a.target_said))
            /\ work' = <<>>
            /\ pc' = "done"
       ELSE /\ returned' = None
            /\ work' = <<Entry(a.root_said, <<>>, {a.root_said})>>
            /\ pc' = "bfs"
    /\ UNCHANGED _neighbor_fn

\* The for loop of shortest_path over the neighbors of current from index
\* i on: the queue after the loop, and the path it returned, if any.
RECURSIVE bfs_expand(_, _, _, _)
bfs_expand(queue, entry, nbrs, i) ==
    IF i > Len(nbrs)
    THEN [queue |-> queue, found |-> None]
    ELSE LET edge == nbrs[i]
         IN  IF skipped(edge, entry.visited)
             THEN bfs_expand(queue, entry, nbrs, i + 1)
             ELSE LET step == PathStep(entry.current, edge.target,
                                       edge.edge_type, edge.operator)
                      new_path == Append(entry.path, step)
                  IN  IF edge.target = call.target_said
                      THEN [queue |-> queue,
                            found |-> Some(VerifiedPath(new_path, call.root_said,
                                                        call.target_said))]
                      ELSE bfs_expand(
                               Append(queue, Entry(edge.target, new_path,
                                                   entry.visited \cup {edge.target})),
                               entry, nbrs, i + 1)

\* bfs_iteration expanding a branch that has already reached max_depth.
bfs_iteration_off_by_one(entry, queue) ==
    IF Len(entry.path) > call.max_depth
    THEN [queue |-> queue, found |-> None]
    ELSE bfs_expand(queue, entry, neighbors(entry.current), 1)

\* One iteration of the while loop of shortest_path (lines 245-279) on the
\* entry popped from the queue.
bfs_iteration(entry, queue) ==
    IF Len(entry.path) >= call.max_depth
    THEN [queue |-> queue, found |-> None]
    ELSE bfs_expand(queue, entry, neighbors(entry.current), 1)

\* The while loop of shortest_path: one iteration, with the return that
\* ends the search when it is the last.
shortest_path_step ==
    /\ pc = "bfs"
    /\ LET after == bfs_iteration(Head(work), Tail(work))
       IN  IF after.found # None
           THEN /\ returned' = after.found
                /\ work' = after.queue
                /\ pc' = "done"
           ELSE /\ returned' = None
                /\ work' = after.queue
                /\ pc' = IF after.queue = <<>> THEN "done" ELSE "bfs"
    /\ UNCHANGED <<_neighbor_fn, call, paths>>

\* find_paths up to the start of its while loop (lines 162-169).
find_paths(a) ==
    /\ pc = "idle"
    /\ call' = SearchCall("find_paths", a.root_said, a.target_said, a.max_depth,
                          a.edge_type_filter, a.operator_filter)
    /\ paths' = <<>>
    /\ returned' = <<>>
    /\ IF _neighbor_fn = None
       THEN /\ work' = <<>>
            /\ pc' = "done"
       ELSE /\ work' = <<Entry(a.root_said, <<>>, {a.root_said})>>
            /\ pc' = "dfs"
    /\ UNCHANGED _neighbor_fn

\* dfs_expand pushing each branch with the visited set of its parent, the
\* neighbor itself not added.
RECURSIVE dfs_expand_visited_not_extended(_, _, _, _)
dfs_expand_visited_not_extended(stack, entry, nbrs, i) ==
    IF i > Len(nbrs)
    THEN stack
    ELSE LET edge == nbrs[i]
         IN  IF skipped(edge, entry.visited)
             THEN dfs_expand_visited_not_extended(stack, entry, nbrs, i + 1)
             ELSE LET step == PathStep(entry.current, edge.target,
                                       edge.edge_type, edge.operator)
                  IN  dfs_expand_visited_not_extended(
                          Append(stack, Entry(edge.target, Append(entry.path, step),
                                              entry.visited)),
                          entry, nbrs, i + 1)

\* The for loop of find_paths over the neighbors of current from index i on.
RECURSIVE dfs_expand(_, _, _, _)
dfs_expand(stack, entry, nbrs, i) ==
    IF i > Len(nbrs)
    THEN stack
    ELSE LET edge == nbrs[i]
         IN  IF skipped(edge, entry.visited)
             THEN dfs_expand(stack, entry, nbrs, i + 1)
             ELSE LET step == PathStep(entry.current, edge.target,
                                       edge.edge_type, edge.operator)
                  IN  dfs_expand(
                          Append(stack, Entry(edge.target, Append(entry.path, step),
                                              entry.visited \cup {edge.target})),
                          entry, nbrs, i + 1)

\* paths.sort(key=lambda p: p.depth): a stable sort by depth.
RECURSIVE insert_by_depth(_, _)
insert_by_depth(sorted, p) ==
    IF sorted = <<>> \/ depth(sorted[Len(sorted)]) <= depth(p)
    THEN Append(sorted, p)
    ELSE Append(insert_by_depth(SubSeq(sorted, 1, Len(sorted) - 1), p),
                sorted[Len(sorted)])

\* sort_by_depth left out: the paths are returned as discovered.
sort_by_depth_skipped(ps) == ps

RECURSIVE sort_by_depth(_)
sort_by_depth(ps) ==
    IF ps = <<>>
    THEN <<>>
    ELSE insert_by_depth(sort_by_depth(SubSeq(ps, 1, Len(ps) - 1)), ps[Len(ps)])

\* One iteration of the while loop of find_paths (lines 171-204), with the
\* sort and return (lines 206-208) when it is the last.
find_paths_step ==
    /\ pc = "dfs"
    /\ LET entry == work[Len(work)]
           stack == SubSeq(work, 1, Len(work) - 1)
           found == entry.current = call.target_said
           new_paths == IF found
                        THEN Append(paths, VerifiedPath(entry.path, call.root_said,
                                                        call.target_said))
                        ELSE paths
           new_stack == IF found \/ Len(entry.path) >= call.max_depth
                        THEN stack
                        ELSE dfs_expand(stack, entry, neighbors(entry.current), 1)
       IN  /\ work' = new_stack
           /\ IF new_stack = <<>>
              THEN /\ paths' = sort_by_depth(new_paths)
                   /\ returned' = sort_by_depth(new_paths)
                   /\ pc' = "done"
              ELSE /\ paths' = new_paths
                   /\ returned' = <<>>
                   /\ pc' = "dfs"
    /\ UNCHANGED <<_neighbor_fn, call>>

(***************************************************************************)
(* OPERATOR ALGEBRA                                                        *)
(***************************************************************************)

\* Most questions one caller of operator_satisfies asks in a row.
MaxChecks == 2

OperatorIdle ==
    /\ operands = <<>>
    /\ verdicts = <<>>

\* A caller with one to MaxChecks pairs of operators to compare.
OperatorInit ==
    /\ operands \in SeqsUpTo(EdgeOperators \X EdgeOperators, MaxChecks) \ {<<>>}
    /\ verdicts = <<>>

\* The next call operator_satisfies(actual, required).
operator_check ==
    /\ Len(verdicts) < Len(operands)
    /\ LET pair == operands[Len(verdicts) + 1]
       IN  verdicts' = Append(verdicts, operator_satisfies(pair[1], pair[2]))
    /\ UNCHANGED operands

(***************************************************************************)
(* TEMPORAL VERIFIER                                                       *)
(***************************************************************************)

\* The credential or edge SAID of a check.
CredentialSaids == {"ECred"}

\* The caller-supplied verify_fn(said, keys), by what it does for each key
\* set: it returns true or false, or raises an Exception whose text is
\* ErrorText.  One accepts the keys k1 only, one the keys k2 only, one
\* raises on k1 and accepts k2.
ErrorText == "bad"

VerifyFns ==
    { [k \in {"k1", "k2"} |-> IF k = "k1" THEN "true" ELSE "false"],
      [k \in {"k1", "k2"} |-> IF k = "k2" THEN "true" ELSE "false"],
      [k \in {"k1", "k2"} |-> IF k = "k1" THEN "raise" ELSE "true"] }

\* A message of a result: its wording and the identifier or error text it
\* names.
Message(text, about) == [text |-> text, about |-> about]

TemporalCheckResult(valid, snapshot, credential_said, message) ==
    [valid |-> valid, snapshot |-> snapshot,
     credential_said |-> credential_said, message |-> message]

\* A call of the verifier as its caller observes it: the operation, its
\* arguments and the TemporalCheckResult it returned.
VerifierCall(op, said, issuer_aid, subject_aid, seq, verify_fn, outcome) ==
    [op |-> op, said |-> said, issuer_aid |-> issuer_aid,
     subject_aid |-> subject_aid, seq |-> seq, verify_fn |-> verify_fn,
     outcome |-> outcome]

VerifierIdle ==
    /\ verdict = None
    /\ edge_check = None

\* verify_result with the verify function never consulted: a resolved
\* snapshot alone makes the credential valid.
verify_result_existence_only(credential_said, issuer_aid, verify_fn, snapshot) ==
    IF snapshot = None
    THEN TemporalCheckResult(FALSE, None, credential_said,
                             Message("Key state not found", issuer_aid))
    ELSE TemporalCheckResult(TRUE, snapshot, credential_said,
                             Message("Key state resolved", issuer_aid))

\* verify_result with the error result built without the snapshot.
verify_result_error_without_snapshot(credential_said, issuer_aid, verify_fn, snapshot) ==
    IF snapshot = None
    THEN TemporalCheckResult(FALSE, None, credential_said,
                             Message("Key state not found", issuer_aid))
    ELSE IF verify_fn = None
    THEN TemporalCheckResult(TRUE, snapshot, credential_said,
                             Message("Key state resolved", issuer_aid))
    ELSE LET is_valid == verify_fn[1][snapshot[1].keys]
         IN  IF is_valid = "raise"
             THEN TemporalCheckResult(FALSE, None, credential_said,
                                      Message("Verification error", ErrorText))
             ELSE IF is_valid = "true"
             THEN TemporalCheckResult(TRUE, snapshot, credential_said,
                                      Message("Credential valid", issuer_aid))
             ELSE TemporalCheckResult(FALSE, snapshot, credential_said,
                                      Message("Credential invalid", issuer_aid))

\* verify_at_keystate after the resolution (verifier.py lines 100-140): the
\* result for the snapshot that resolve returned.
verify_result(credential_said, issuer_aid, verify_fn, snapshot) ==
    IF snapshot = None
    THEN TemporalCheckResult(FALSE, None, credential_said,
                             Message("Key state not found", issuer_aid))
    ELSE IF verify_fn = None
    THEN TemporalCheckResult(TRUE, snapshot, credential_said,
                             Message("Key state resolved", issuer_aid))
    ELSE LET is_valid == verify_fn[1][snapshot[1].keys]
         IN  IF is_valid = "raise"
             THEN TemporalCheckResult(FALSE, snapshot, credential_said,
                                      Message("Verification error", ErrorText))
             ELSE IF is_valid = "true"
             THEN TemporalCheckResult(TRUE, snapshot, credential_said,
                                      Message("Credential valid", issuer_aid))
             ELSE TemporalCheckResult(FALSE, snapshot, credential_said,
                                      Message("Credential invalid", issuer_aid))

verify_at_keystate(credential_said, issuer_aid, seq, verify_fn) ==
    /\ edge_check = None
    /\ resolve(issuer_aid, seq)
    /\ verdict' = Some(VerifierCall(
                       "verify_at_keystate", credential_said, issuer_aid, "",
                       seq, verify_fn,
                       verify_result(credential_said, issuer_aid, verify_fn,
                                     ret'.result)))
    /\ UNCHANGED edge_check

\* check_edge_at_keystate, lines 163-170: the issuer is resolved at seq; the
\* call returns if that fails and goes on to the subject if not.
check_edge_at_keystate(edge_said, issuer_aid, subject_aid, seq) ==
    /\ edge_check = None
    /\ resolve(issuer_aid, seq)
    /\ IF ret'.result = None
       THEN /\ verdict' = Some(VerifierCall(
                               "check_edge_at_keystate", edge_said, issuer_aid,
                               subject_aid, seq, None,
                               TemporalCheckResult(
                                   FALSE, None, edge_said,
                                   Message("Issuer key state not found",
                                           issuer_aid))))
            /\ edge_check' = None
       ELSE /\ verdict' = None
            /\ edge_check' = Some([edge_said |-> edge_said,
                                    issuer_aid |-> issuer_aid,
                                    subject_aid |-> subject_aid, seq |-> seq,
                                    issuer_snapshot |-> ret'.result[1]])

\* check_edge_subject resolving the subject at the sequence number of the
\* call, like the issuer.
check_edge_subject_at_seq ==
    /\ edge_check # None
    /\ LET c == edge_check[1]
       IN  /\ resolve(c.subject_aid, c.seq)
           /\ verdict' = Some(VerifierCall(
                  "check_edge_at_keystate", c.edge_said, c.issuer_aid,
                  c.subject_aid, c.seq, None,
                  IF ret'.result = None
                  THEN TemporalCheckResult(
                           FALSE, None, c.edge_said,
                           Message("Subject key state not found", c.subject_aid))
                  ELSE TemporalCheckResult(
                           TRUE, Some(c.issuer_snapshot), c.edge_said,
                           Message("Edge valid", c.issuer_aid))))
    /\ edge_check' = None

\* check_edge_at_keystate, lines 172-190: the subject is resolved at its
\* current state and the call returns.
check_edge_subject ==
    /\ edge_check # None
    /\ LET c == edge_check[1]
       IN  /\ resolve(c.subject_aid, None)
           /\ verdict' = Some(VerifierCall(
                  "check_edge_at_keystate", c.edge_said, c.issuer_aid,
                  c.subject_aid, c.seq, None,
                  IF ret'.result = None
                  THEN TemporalCheckResult(
                           FALSE, None, c.edge_said,
                           Message("Subject key state not found", c.subject_aid))
                  ELSE TemporalCheckResult(
                           TRUE, Some(c.issuer_snapshot), c.edge_said,
                           Message("Edge valid", c.issuer_aid))))
    /\ edge_check' = None

\* A call made on the resolver itself while no verifier call is running.
resolver_call(step) ==
    /\ edge_check = None
    /\ step
    /\ verdict' = None
    /\ UNCHANGED edge_check

(***************************************************************************)
(* FRAMEWORK RESOLVER                                                      *)
(***************************************************************************)

\* The number of versions of the framework lineage.
MaxVersions == 3

\* The saids of the versions, oldest first.
VersionSaids == <<"EV1", "EV2", "EV3", "EV4", "EV5">>

\* GovernanceFramework, as far as the resolver reads it: said and the
\* supersedes property (the said of the prior version, or None).
GovernanceFramework(said, supersedes) == [said |-> said, supersedes |-> supersedes]

\* Version i of the lineage: it supersedes version i - 1; the first
\* supersedes nothing.
Version(i) ==
    GovernanceFramework(VersionSaids[i],
                        IF i = 1 THEN None ELSE Some(VersionSaids[i - 1]))

Lineage == {Version(i) : i \in 1 .. MaxVersions}

LineageSaids == {VersionSaids[i] : i \in 1 .. MaxVersions}

\* A framework outside the lineage that also supersedes the first version.
Fork == GovernanceFramework("EFORK", Some("EV1"))

Frameworks == Lineage \cup {Fork}

FrameworkSaids == {fw.said : fw \in Frameworks} \cup {"EUnknown"}

\* A credential store holding every framework: what the injected resolver
\* and GovernanceFramework.from_credential give for a said.
CredentialStore ==
    [said \in FrameworkSaids |->
        IF \E fw \in Frameworks : fw.said = said
        THEN Some(CHOOSE fw \in Frameworks : fw.said = said)
        ELSE None]

\* The two dicts of a FrameworkResolver.
Caches(cache, superseded_by) == [cache |-> cache, superseded_by |-> superseded_by]

\* register, and resolve lines 141-143, with the supersession edge left
\* unrecorded.
store_framework_without_edge(st, key, framework) ==
    Caches((key :> framework) @@ st.cache, st.superseded_by)

\* register lines 158-160 and resolve lines 141-143: cache the framework
\* and record its supersession edge.
store_framework(st, key, framework) ==
    Caches((key :> framework) @@ st.cache,
           IF framework.supersedes # None
           THEN (framework.supersedes[1] :> framework.said) @@ st.superseded_by
           ELSE st.superseded_by)

\* resolve(framework_said) in the state st: the Optional framework returned.
resolve_framework(st, framework_said) ==
    IF framework_said \in DOMAIN st.cache
    THEN Some(st.cache[framework_said])
    ELSE IF _resolve_fn = None
    THEN None
    ELSE _resolve_fn[1][framework_said]

\* resolve(framework_said) in the state st: the two dicts after the call.
resolve_caches(st, framework_said) ==
    IF framework_said \in DOMAIN st.cache \/ resolve_framework(st, framework_said) = None
    THEN st
    ELSE store_framework(st, framework_said, resolve_framework(st, framework_said)[1])

\* The backward loop of resolve_chain, lines 211-217: the ancestors found
\* from current on, the saids seen and the dicts after the loop.
RECURSIVE walk_backward(_, _, _, _)
walk_backward(st, current, seen_saids, ancestors) ==
    IF current.supersedes = None
    THEN [st |-> st, seen_saids |-> seen_saids, found |-> ancestors]
    ELSE LET prior == resolve_framework(st, current.supersedes[1])
             after == resolve_caches(st, current.supersedes[1])
         IN  IF prior = None \/ prior[1].said \in seen_saids
             THEN [st |-> after, seen_saids |-> seen_saids, found |-> ancestors]
             ELSE walk_backward(after, prior[1], seen_saids \cup {prior[1].said},
                                Append(ancestors, prior[1]))

\* The forward loop of resolve_chain, lines 222-231, over _superseded_by.
RECURSIVE walk_forward(_, _, _, _)
walk_forward(st, current, seen_saids, descendants) ==
    IF current.said \notin DOMAIN st.superseded_by
    THEN [st |-> st, seen_saids |-> seen_saids, found |-> descendants]
    ELSE LET next_said == st.superseded_by[current.said]
             newer == resolve_framework(st, next_said)
             after == resolve_caches(st, next_said)
         IN  IF next_said \in seen_saids
             THEN [st |-> st, seen_saids |-> seen_saids, found |-> descendants]
             ELSE IF newer = None
             THEN [st |-> after, seen_saids |-> seen_saids, found |-> descendants]
             ELSE walk_forward(after, newer[1], seen_saids \cup {newer[1].said},
                               Append(descendants, newer[1]))

reversed(seq) == [i \in 1 .. Len(seq) |-> seq[Len(seq) + 1 - i]]

\* resolve_chain(framework_said) in the state st: the versions of the
\* VersionChain returned, newest first, and the dicts after the call.
chain_of(st, framework_said) ==
    LET start == resolve_framework(st, framework_said)
        st1 == resolve_caches(st, framework_said)
    IN  IF start = None
        THEN [versions |-> <<>>, st |-> st1]
        ELSE LET back == walk_backward(st1, start[1], {start[1].said}, <<>>)
                 forth == walk_forward(back.st, start[1], back.seen_saids, <<>>)
             IN  [versions |-> reversed(forth.found) \o <<start[1]>> \o back.found,
                  st |-> forth.st]

\* VersionChain.active: the first version, None for an empty chain.
active(versions) == IF versions # <<>> THEN Some(versions[1]) ELSE None

\* Every version of the lineage is cached and no supersession was registered
\* by hand.
LineageRegistered ==
    /\ DOMAIN _framework_cache = LineageSaids
    /\ ~explicit

\* A call of the FrameworkResolver as its caller observes it: the
\* operation, its argument, the frameworks returned (one or none for
\* resolve and resolve_active, the chain for resolve_chain), and whether
\* the lineage was registered when the call was made.
FrameworkCall(op, said, result, complete) ==
    [op |-> op, said |-> said, result |-> result, complete |-> complete]

GovernanceIdle ==
    /\ _resolve_fn = None
    /\ _framework_cache = EmptyDict
    /\ _superseded_by = EmptyDict
    /\ registration = <<>>
    /\ explicit = FALSE
    /\ answer = FrameworkCall("init", "", <<>>, FALSE)

\* FrameworkResolver(credential_resolver): without or with a store.
GovernanceInit ==
    /\ _resolve_fn \in Opt({CredentialStore})
    /\ _framework_cache = EmptyDict
    /\ _superseded_by = EmptyDict
    /\ registration = <<>>
    /\ explicit = FALSE
    /\ answer = FrameworkCall("init", "", <<>>, FALSE)

\* The two dicts become those of st.
SetCaches(st) ==
    /\ _framework_cache' = st.cache
    /\ _superseded_by' = st.superseded_by

CurrentCaches == Caches(_framework_cache, _superseded_by)

\* register(framework).
register_framework(framework) ==
    /\ SetCaches(store_framework(CurrentCaches, framework.said, framework))
    /\ registration' =
           IF \E i \in 1 .. Len(registration) : registration[i] = framework.said
           THEN registration
           ELSE Append(registration, framework.said)
    /\ answer' = FrameworkCall("register", framework.said, <<>>, LineageRegistered)
    /\ UNCHANGED <<_resolve_fn, explicit>>

\* register_supersession(new_said, old_said).
register_supersession(new_said, old_said) ==
    /\ _superseded_by' = (old_said :> new_said) @@ _superseded_by
    /\ explicit' = TRUE
    /\ answer' = FrameworkCall("register_supersession", new_said, <<>>, LineageRegistered)
    /\ UNCHANGED <<_resolve_fn, _framework_cache, registration>>

\* FrameworkResolver.clear_cache().
clear_framework_cache ==
    /\ _framework_cache' = EmptyDict
    /\ _superseded_by' = EmptyDict
    /\ registration' = <<>>
    /\ explicit' = FALSE
    /\ answer' = FrameworkCall("clear_cache", "", <<>>, LineageRegistered)
    /\ UNCHANGED _resolve_fn

\* resolve(framework_said) called from outside.
resolve_said(framework_said) ==
    /\ SetCaches(resolve_caches(CurrentCaches, framework_said))
    /\ answer' = FrameworkCall("resolve", framework_said,
                               resolve_framework(CurrentCaches, framework_said),
                               LineageRegistered)
    /\ UNCHANGED <<_resolve_fn, registration, explicit>>

\* resolve_chain(framework_said).
resolve_chain(framework_said) ==
    LET chain == chain_of(CurrentCaches, framework_said)
    IN  /\ SetCaches(chain.st)
        /\ answer' = FrameworkCall("resolve_chain", framework_said, chain.versions,
                                   LineageRegistered)
        /\ UNCHANGED <<_resolve_fn, registration, explicit>>

\* resolve_active(framework_said).
resolve_active(framework_said) ==
    LET chain == chain_of(CurrentCaches, framework_said)
    IN  /\ SetCaches(chain.st)
        /\ answer' = FrameworkCall("resolve_active", framework_said,
                                   active(chain.versions), LineageRegistered)
        /\ UNCHANGED <<_resolve_fn, registration, explicit>>

(***************************************************************************)
(* PARSER                                                                  *)
(***************************************************************************)

\* How deep a WHERE condition is wrapped in NOT and parentheses.
MaxNesting == 1

\* The longest value list of an IN condition.
MaxValues == 2

\* A node of the derivation of a query text in KGQL_GRAMMAR: a token (a
\* terminal and its lexeme; for a STRING the text between the quotes) or a
\* rule (or alias) with the derivations of its symbols.  ANON marks the
\* tokens of the literals written inside a rule ("NOT", "IN", "-[", ...).
Tok(type, value) == [rule |-> type, children |-> <<>>, value |-> value]

Anon(value) == Tok("ANON", value)

Tree(rule, children) == [rule |-> rule, children |-> children, value |-> ""]

Terminals == {"NAME", "VARIABLE", "NUMBER", "STRING", "COMPARATOR", "ASC", "DESC", "ANON"}

\* A Python value handed from one transformer callback to the next, with
\* the class that isinstance() sees.
Item(tag, val) == [tag |-> tag, val |-> val]

PyNone == Item("NoneType", "None")

\* x as an Optional field of the AST; None for Python's None.
Optional(x) == IF x.tag = "NoneType" THEN None ELSE Some(x.val)

\* x as an Optional value that keeps its class; None for Python's None.
OptionalItem(x) == IF x.tag = "NoneType" THEN None ELSE Some(x)

\* items[i] if the list is that long, else Python's None.
ItemOr(items, i) == IF Len(items) >= i THEN items[i] ELSE PyNone

\* dict.get(key).
Get(dict, key) == IF key \in DOMAIN dict THEN dict[key] ELSE PyNone

\* int(s) and str.upper() on the lexemes of the model.
IntOf == ("0" :> 0) @@ ("5" :> 5) @@ ("7" :> 7) @@ ("10" :> 10)

Upper(s) ==
    CASE s = "like" -> "LIKE"
      [] s = "contains" -> "CONTAINS"
      [] OTHER -> s

\* str(x) of an item: the string itself; for a dotted field reference (a
\* str kept as its segments, class "path") and for another object a text
\* that is no comparator and not "NOT".
Str(x) ==
    IF x.tag \in {"str", "Token"} THEN x.val
    ELSE IF x.tag = "path" THEN "<dotted>"
    ELSE "<repr>"

\* str.startswith("$") on the strings of the model.
StartsWithDollar(s) == s \in {"$aid", "$start"}

(* What a query text says, and its derivation. *)

NodeTexts ==
    {[variable |-> Some("c"), node_type |-> Some("Credential")],
     [variable |-> Some("d"), node_type |-> None]}

\* node_pattern: "(" NAME? (":" NAME)? ")"
node_pattern_tree(n) ==
    Tree("node_pattern",
         <<Anon("(")>>
         \o (IF n.variable # None THEN <<Tok("NAME", n.variable[1])>> ELSE <<>>)
         \o (IF n.node_type # None
             THEN <<Anon(":"), Tok("NAME", n.node_type[1])>> ELSE <<>>)
         \o <<Anon(")")>>)

\* The edge patterns written: "-[spec]->" (arrow "->") or "<-[spec]-"
\* (arrow "<-"), the spec being empty, "e:iss @I2I", ":iss" or "@DI2I".
EdgeTexts ==
    {[arrow |-> a, variable |-> s[1], edge_type |-> s[2], operator |-> s[3]] :
        a \in {"->", "<-"},
        s \in {<<None, None, None>>, <<Some("e"), Some("iss"), Some("I2I")>>,
               <<None, Some("iss"), None>>, <<None, None, Some("DI2I")>>}}

\* operator: "@I2I"i -> i2i | "@DI2I"i -> di2i | "@NI2I"i -> ni2i | "@ANY"i -> any_op
operator_tree(o) ==
    IF o = None THEN <<>>
    ELSE <<Tree(CASE o[1] = "I2I" -> "i2i" [] o[1] = "DI2I" -> "di2i"
                  [] o[1] = "NI2I" -> "ni2i" [] OTHER -> "any_op",
                <<Anon(o[1])>>)>>

\* edge_spec and its alternatives.
edge_spec_tree(e) ==
    IF e.variable # None /\ e.edge_type # None
    THEN <<Tree("edge_spec",
                <<Tree("edge_var_type",
                       <<Tok("NAME", e.variable[1]), Anon(":"),
                         Tok("NAME", e.edge_type[1])>> \o operator_tree(e.operator))>>)>>
    ELSE IF e.edge_type # None
    THEN <<Tree("edge_spec",
                <<Tree("edge_type_only",
                       <<Anon(":"), Tok("NAME", e.edge_type[1])>>
                       \o operator_tree(e.operator))>>)>>
    ELSE IF e.variable # None
    THEN <<Tree("edge_spec",
                <<Tree("edge_var_only",
                       <<Tok("NAME", e.variable[1])>> \o operator_tree(e.operator))>>)>>
    ELSE IF e.operator # None
    THEN <<Tree("edge_spec", <<Tree("edge_op_only", operator_tree(e.operator))>>)>>
    ELSE <<>>

\* edge_pattern: "-[" edge_spec? "]->" | "<-[" edge_spec? "]-"
edge_pattern_tree(e) ==
    Tree("edge_pattern",
         <<Anon(IF e.arrow = "->" THEN "-[" ELSE "<-[")>>
         \o edge_spec_tree(e)
         \o <<Anon(IF e.arrow = "->" THEN "]->" ELSE "]-")>>)

\* The patterns written: a node, or a node, an edge and a second node.
PatternTexts ==
    {[node |-> n, edge |-> None] : n \in NodeTexts}
    \cup {[node |-> n, edge |-> Some(e)] : n \in NodeTexts, e \in EdgeTexts}

\* pattern: node_pattern (edge_pattern node_pattern)?
pattern_tree(p) ==
    Tree("pattern",
         <<node_pattern_tree(p.node)>>
         \o (IF p.edge # None
             THEN <<edge_pattern_tree(p.edge[1]),
                    node_pattern_tree([variable |-> Some("s"), node_type |-> None])>>
             ELSE <<>>))

\* pattern_list: pattern ("," pattern)*
pattern_list_tree(ps) ==
    Tree("pattern_list",
         [i \in 1 .. (2 * Len(ps) - 1) |->
             IF i % 2 = 1 THEN pattern_tree(ps[(i + 1) \div 2]) ELSE Anon(",")])

\* A said written as a STRING literal or as a VARIABLE.
SaidTexts == {[kind |-> "STRING", value |-> "ESAID"], [kind |-> "VARIABLE", value |-> "$aid"]}

said_tree(s) == Tok(s.kind, s.value)

\* keystate_spec: "aid"i "=" STRING ("," "seq"i "=" NUMBER)?
KeyStateTexts == {[aid |-> "EAID_123", seq |-> s] : s \in Opt({"5"})}

keystate_spec_tree(k) ==
    Tree("keystate_spec",
         <<Anon("aid"), Anon("="), Tok("STRING", k.aid)>>
         \o (IF k.seq # None
             THEN <<Anon(","), Anon("seq"), Anon("="), Tok("NUMBER", k.seq[1])>>
             ELSE <<>>))

\* The start and the target of a TRAVERSE: a literal, a variable or a node
\* pattern.
EndTexts ==
    {[kind |-> "STRING", value |-> "E1", node |-> None],
     [kind |-> "VARIABLE", value |-> "$start", node |-> None]}
    \cup {[kind |-> "pattern", value |-> "", node |-> Some(n)] : n \in NodeTexts}

\* traverse_source: STRING | VARIABLE | from_pattern, and traverse_target
\* likewise with to_pattern.
end_tree(rule, pattern_rule, t) ==
    Tree(rule,
         <<IF t.kind = "pattern"
           THEN Tree(pattern_rule, <<node_pattern_tree(t.node[1])>>)
           ELSE Tok(t.kind, t.value)>>)

\* The operations written.
OperationTexts ==
    {[keyword |-> "MATCH", patterns |-> <<p>>] : p \in PatternTexts}
    \cup {[keyword |-> "MATCH", patterns |-> <<p, p>>] : p \in PatternTexts}
    \cup {[keyword |-> "RESOLVE", said |-> s] : s \in SaidTexts}
    \cup {[keyword |-> "TRAVERSE", source |-> src, target |-> Some(tgt),
           via |-> via, follow |-> None] :
             src \in EndTexts, tgt \in EndTexts, via \in Opt(EdgeTexts)}
    \cup {[keyword |-> "TRAVERSE", source |-> src, target |-> None,
           via |-> None, follow |-> Some("edge")] : src \in EndTexts}
    \cup {[keyword |-> "VERIFY", said |-> s, against |-> a] :
             s \in SaidTexts, a \in Opt(KeyStateTexts)}

\* operation: match_op | resolve_op | traverse_op | verify_op
operation_tree(op) ==
    Tree("operation",
      <<CASE op.keyword = "MATCH" ->
               Tree("match_op", <<Anon("MATCH"), pattern_list_tree(op.patterns)>>)
          [] op.keyword = "RESOLVE" ->
               Tree("resolve_op", <<Anon("RESOLVE"), said_tree(op.said)>>)
          [] op.keyword = "TRAVERSE" ->
               Tree("traverse_op",
                 <<IF op.target # None
                   THEN Tree("traverse_to_via",
                             <<Anon("TRAVERSE"), Anon("FROM"),
                               end_tree("traverse_source", "from_pattern", op.source),
                               Anon("TO"),
                               end_tree("traverse_target", "to_pattern", op.target[1])>>
                             \o (IF op.via # None
                                 THEN <<Tree("via_clause",
                                             <<Anon("VIA"), edge_pattern_tree(op.via[1])>>)>>
                                 ELSE <<>>))
                   ELSE Tree("traverse_follow",
                             <<Anon("TRAVERSE"), Anon("FROM"),
                               end_tree("traverse_source", "from_pattern", op.source),
                               Anon("FOLLOW"), Tok("NAME", op.follow[1])>>)>>)
          [] OTHER ->
               Tree("verify_op",
                    <<Anon("VERIFY"), said_tree(op.said)>>
                    \o (IF op.against # None
                        THEN <<Tree("against_clause",
                                    <<Anon("AGAINST"), keystate_spec_tree(op.against[1])>>)>>
                        ELSE <<>>))>>)

\* The contexts written: none, AT KEYSTATE, WITHIN FRAMEWORK, or both.
ContextTexts ==
    {[keystate |-> k, governance |-> g] :
        k \in Opt(KeyStateTexts), g \in Opt({"EFrameworkSAID"})}

\* context_clause: keystate_context governance_context? | governance_context
context_tree(c) ==
    IF c.keystate = None /\ c.governance = None
    THEN <<>>
    ELSE <<Tree("context_clause",
                (IF c.keystate # None
                 THEN <<Tree("keystate_context",
                             <<Anon("AT"), Anon("KEYSTATE"), Anon("("),
                               keystate_spec_tree(c.keystate[1]), Anon(")")>>)>>
                 ELSE <<>>)
                \o (IF c.governance # None
                    THEN <<Tree("governance_context",
                                <<Anon("WITHIN"), Anon("FRAMEWORK"),
                                  Tok("STRING", c.governance[1])>>)>>
                    ELSE <<>>))>>

\* field_ref: NAME ("." NAME)+
field_ref_tree(field) ==
    Tree("field_ref",
         [i \in 1 .. (2 * Len(field) - 1) |->
             IF i % 2 = 1 THEN Tok("NAME", field[(i + 1) \div 2]) ELSE Anon(".")])

\* The values written: a STRING or a NUMBER.
ValueTexts == {[kind |-> "STRING", value |-> "v1"], [kind |-> "NUMBER", value |-> "5"]}

value_tree(v) == Tree("value", <<Tok(v.kind, v.value)>>)

\* value_list: value ("," value)*
value_list_tree(vs) ==
    Tree("value_list",
         [i \in 1 .. (2 * Len(vs) - 1) |->
             IF i % 2 = 1 THEN value_tree(vs[(i + 1) \div 2]) ELSE Anon(",")])

\* The lexemes of COMPARATOR written, the keywords in either case.
ComparatorTexts == {"=", "!=", "<", ">", "<=", ">=", "LIKE", "like", "CONTAINS"}

\* The conditions written without NOT and parentheses: "field comparator
\* value" and "field IN (values)".
PlainConditionTexts ==
    {[form |-> "compare", field |-> <<"c", "issuer">>, comparator |-> cmp,
      values |-> <<v>>, inner |-> <<>>] : cmp \in ComparatorTexts, v \in ValueTexts}
    \cup {[form |-> "in", field |-> <<"c", "issuer">>, comparator |-> "IN",
           values |-> vs, inner |-> <<>>] :
             vs \in SeqsUpTo(ValueTexts, MaxValues) \ {<<>>}}

\* The conditions written with up to n levels of "NOT condition" and
\* "(condition)" around a plain one.
RECURSIVE ConditionTextsUpTo(_)
ConditionTextsUpTo(n) ==
    IF n = 0
    THEN PlainConditionTexts
    ELSE ConditionTextsUpTo(n - 1)
         \cup {[form |-> f, field |-> c.field, comparator |-> c.comparator,
                values |-> c.values, inner |-> <<c>>] :
                  f \in {"not", "paren"}, c \in ConditionTextsUpTo(n - 1)}

ConditionTexts == ConditionTextsUpTo(MaxNesting)

\* condition: field_ref COMPARATOR value | field_ref "IN"i "(" value_list ")"
\*          | "NOT"i condition | "(" condition ")"
RECURSIVE condition_tree(_)
condition_tree(c) ==
    Tree("condition",
         CASE c.form = "compare" ->
                <<field_ref_tree(c.field), Tok("COMPARATOR", c.comparator),
                  value_tree(c.values[1])>>
           [] c.form = "in" ->
                <<field_ref_tree(c.field), Anon("IN"), Anon("("),
                  value_list_tree(c.values), Anon(")")>>
           [] c.form = "not" -> <<Anon("NOT"), condition_tree(c.inner[1])>>
           [] OTHER -> <<Anon("("), condition_tree(c.inner[1]), Anon(")")>>)

\* where_clause: "WHERE"i condition_list, condition ("AND"i condition)*
where_clause_tree(cs) ==
    Tree("where_clause",
         <<Anon("WHERE"),
           Tree("condition_list",
                [i \in 1 .. (2 * Len(cs) - 1) |->
                    IF i % 2 = 1 THEN condition_tree(cs[(i + 1) \div 2])
                    ELSE Anon("AND")])>>)

\* The modifiers written after the operation, in the order WHERE, WITH,
\* ORDER BY, LIMIT, each present or not.
ModifierTexts ==
    {[where |-> w, with |-> wo, order |-> o, limit |-> l] :
        w \in {<<>>, <<CHOOSE c \in PlainConditionTexts : TRUE>>},
        wo \in Opt({"PROOF", "KEYSTATE"}),
        o \in Opt({"", "ASC", "DESC"}),
        l \in Opt({"0", "10"})}

NoModifierTexts == [where |-> <<>>, with |-> None, order |-> None, limit |-> None]

\* modifier_clause: modifier+, modifier: where_clause | with_clause
\*                                     | order_clause | limit_clause
modifier_clause_tree(m) ==
    LET modifiers ==
            (IF m.where # <<>>
             THEN <<Tree("modifier", <<where_clause_tree(m.where)>>)>> ELSE <<>>)
            \o (IF m.with # None
                THEN <<Tree("modifier",
                            <<Tree("with_clause",
                                   <<Anon("WITH"),
                                     Tree("with_option", <<Anon(m.with[1])>>)>>)>>)>>
                ELSE <<>>)
            \o (IF m.order # None
                THEN <<Tree("modifier",
                            <<Tree("order_clause",
                                   <<Anon("ORDER"), Anon("BY"),
                                     field_ref_tree(<<"c", "issued">>)>>
                                   \o (IF m.order[1] # ""
                                       THEN <<Tree("sort_dir",
                                                   <<Tok(m.order[1], m.order[1])>>)>>
                                       ELSE <<>>))>>)>>
                ELSE <<>>)
            \o (IF m.limit # None
                THEN <<Tree("modifier",
                            <<Tree("limit_clause",
                                   <<Anon("LIMIT"), Tok("NUMBER", m.limit[1])>>)>>)>>
                ELSE <<>>)
    IN  IF modifiers = <<>> THEN <<>> ELSE <<Tree("modifier_clause", modifiers)>>

\* return_clause: "RETURN"i return_list, with field references as items.
return_clause_tree(fields) ==
    IF fields = <<>>
    THEN <<>>
    ELSE <<Tree("return_clause",
                <<Anon("RETURN"),
                  Tree("return_list",
                       [i \in 1 .. (2 * Len(fields) - 1) |->
                           IF i % 2 = 1
                           THEN Tree("return_item",
                                     <<field_ref_tree(fields[(i + 1) \div 2])>>)
                           ELSE Anon(",")])>>)>>

ReturnTexts == {<<>>, <<<<"c", "said">>, <<"c", "issuer">>>>}

QueryText(context, operation, modifiers, returns) ==
    [context |-> context, operation |-> operation, modifiers |-> modifiers,
     returns |-> returns]

NoContextText == [keystate |-> None, governance |-> None]

SimpleMatchText ==
    [keyword |-> "MATCH",
     patterns |-> <<[node |-> [variable |-> Some("c"), node_type |-> Some("Credential")],
                     edge |-> None]>>]

\* The query texts handed to parse(): every operation under every context;
\* a simple MATCH with every combination of modifiers and RETURN; and a
\* simple MATCH with one or two of the conditions as its WHERE clause.
Texts ==
    {QueryText(c, op, NoModifierTexts, <<>>) : c \in ContextTexts, op \in OperationTexts}
    \cup {QueryText(NoContextText, SimpleMatchText, m, r) :
             m \in ModifierTexts, r \in ReturnTexts}
    \cup {QueryText(NoContextText, SimpleMatchText,
                    [NoModifierTexts EXCEPT !.where = <<c>>], <<>>) :
             c \in ConditionTexts}
    \cup {QueryText(NoContextText, SimpleMatchText,
                    [NoModifierTexts EXCEPT !.where = <<c, c>>], <<>>) :
             c \in ConditionTexts}

\* start: query, query: context_clause? operation modifier_clause? return_clause?
query_tree(t) ==
    Tree("start",
         <<Tree("query",
                context_tree(t.context) \o <<operation_tree(t.operation)>>
                \o modifier_clause_tree(t.modifiers)
                \o return_clause_tree(t.returns))>>)

(* The callbacks of KGQLTransformer. *)

NodePattern(variable, node_type) == [variable |-> variable, node_type |-> node_type]

EdgePattern(variable, edge_type, operator, direction) ==
    [variable |-> variable, edge_type |-> edge_type, operator |-> operator,
     direction |-> direction]

Condition(field, comparator, value, negated) ==
    [field |-> field, comparator |-> comparator, value |-> value, negated |-> negated]

\* TraverseOperation() with every field at its default.
EmptyTraverse ==
    [from_said |-> None, from_pattern |-> None, from_condition |-> None,
     to_said |-> None, to_pattern |-> None, to_condition |-> None,
     via_edge |-> None, follow_type |-> None]

\* KGQLQuery() with every field at its default.
EmptyQuery ==
    [keystate_context |-> None, governance_context |-> None,
     match |-> None, resolve |-> None, traverse |-> None, verify |-> None,
     where |-> None, with_options |-> None, order_by |-> None, limit |-> None,
     return_clause |-> None]

\* The callbacks of the terminals.
terminal(token) ==
    CASE token.rule = "NUMBER" -> Item("int", IntOf[token.value])
      [] token.rule = "COMPARATOR" -> Item("str", Upper(token.value))
      [] token.rule \in {"ASC", "DESC"} -> Item("SortDirection", token.rule)
      [] token.rule = "ANON" -> Item("Token", token.value)
      [] OTHER -> Item("str", token.value)

\* keystate_spec.
keystate_spec(items) ==
    Item("KeyStateContext",
         [aid |-> items[1].val,
          seq |-> IF Len(items) > 1 THEN Some(items[2].val) ELSE None])

\* context_clause: a dict of the "keystate" and "governance" tuples.
RECURSIVE context_clause(_)
context_clause(items) ==
    IF items = <<>>
    THEN EmptyDict
    ELSE LET item == items[Len(items)]
             rest == context_clause(SubSeq(items, 1, Len(items) - 1))
         IN  IF item.tag = "tuple" /\ item.val[1] \in {"keystate", "governance"}
             THEN (item.val[1] :> item.val[2]) @@ rest
             ELSE rest

\* node_pattern: the first string is the variable, the last further string
\* the node type.
node_pattern(items) ==
    LET strs == SelectSeq(items, LAMBDA item : item.tag = "str")
    IN  Item("NodePattern",
             NodePattern(IF Len(strs) >= 1 THEN Some(strs[1].val) ELSE None,
                         IF Len(strs) >= 2 THEN Some(strs[Len(strs)].val) ELSE None))

\* op = items[i] if len(items) > i - 1 and isinstance(items[i], EdgeOperator)
\* else EdgeOperator.ANY
operator_at(items, i) ==
    IF Len(items) >= i /\ items[i].tag = "EdgeOperator" THEN items[i].val ELSE "ANY"

\* edge_var_only, edge_type_only, edge_var_type, edge_op_only and
\* edge_colon_op_only: the tuple (variable, edge_type, op).
edge_alternative(rule, items) ==
    Item("tuple",
         CASE rule = "edge_var_only" ->
                <<Some(items[1].val), None, operator_at(items, 2)>>
           [] rule = "edge_type_only" ->
                <<None, Some(items[1].val), operator_at(items, 2)>>
           [] rule = "edge_var_type" ->
                <<Some(items[1].val), Some(items[2].val), operator_at(items, 3)>>
           [] OTHER -> <<None, None, operator_at(items, 1)>>)

edge_spec(items) ==
    IF items # <<>> /\ items[1].tag = "tuple"
    THEN items[1]
    ELSE IF items # <<>> /\ items[1].tag = "EdgeOperator"
    THEN Item("tuple", <<None, None, items[1].val>>)
    ELSE Item("tuple", <<None, None, "ANY">>)

\* edge_pattern: the last 3-tuple among the items gives variable, type and
\* operator; the direction is the constant "outgoing".
edge_pattern(items) ==
    LET specs == SelectSeq(items, LAMBDA item : item.tag = "tuple" /\ Len(item.val) = 3)
        spec == IF specs # <<>> THEN specs[Len(specs)].val ELSE <<None, None, "ANY">>
    IN  Item("EdgePattern", EdgePattern(spec[1], spec[2], spec[3], "outgoing"))

\* pattern: the tuple (first node, last edge).
pattern(items) ==
    LET nodes == SelectSeq(items, LAMBDA item : item.tag = "NodePattern")
        edges == SelectSeq(items, LAMBDA item : item.tag = "EdgePattern")
    IN  Item("tuple",
             <<IF nodes # <<>> THEN nodes[1].val ELSE None,
               IF edges # <<>> THEN Some(edges[Len(edges)].val) ELSE None>>)

\* The values of the items of a class, in order.
ValuesOf(items, tag) ==
    LET kept == SelectSeq(items, LAMBDA item : item.tag = tag)
    IN  [i \in 1 .. Len(kept) |-> kept[i].val]

pattern_list(items) == Item("list", ValuesOf(items, "tuple"))

\* match_op handing on the list of patterns itself.
match_op_returning_patterns(items) ==
    Item("list", IF items # <<>> THEN items[1].val ELSE <<>>)

match_op(items) ==
    Item("MatchOperation", [patterns |-> IF items # <<>> THEN items[1].val ELSE <<>>])

resolve_op(items) ==
    Item("ResolveOperation",
         [said |-> items[1].val,
          is_variable |-> items[1].tag = "str" /\ StartsWithDollar(items[1].val)])

\* from_pattern and to_pattern: (name, node pattern, condition or None).
end_pattern(name, items) ==
    Item("tuple", <<name, items[1].val, Optional(ItemOr(items, 2))>>)

\* traverse_source and traverse_target.
traverse_end(said_name, pattern_name, items) ==
    IF items[1].tag = "str"
    THEN Item("tuple", <<said_name, items[1].val>>)
    ELSE IF items[1].tag = "tuple" /\ items[1].val[1] = pattern_name
    THEN items[1]
    ELSE Item("tuple", <<said_name, items[1].val>>)

\* The loop of traverse_to_via over its items.
RECURSIVE traverse_to_via(_)
traverse_to_via(items) ==
    IF items = <<>>
    THEN EmptyTraverse
    ELSE LET item == items[Len(items)]
             op == traverse_to_via(SubSeq(items, 1, Len(items) - 1))
         IN  IF item.tag # "tuple" THEN op
             ELSE CASE item.val[1] = "source_said" ->
                         [op EXCEPT !.from_said = Some(item.val[2])]
                    [] item.val[1] = "from_pattern" ->
                         [op EXCEPT !.from_pattern = Some(item.val[2]),
                                    !.from_condition = item.val[3]]
                    [] item.val[1] = "target_said" ->
                         [op EXCEPT !.to_said = Some(item.val[2])]
                    [] item.val[1] = "to_pattern" ->
                         [op EXCEPT !.to_pattern = Some(item.val[2]),
                                    !.to_condition = item.val[3]]
                    [] item.val[1] = "via" ->
                         [op EXCEPT !.via_edge = Some(item.val[2])]
                    [] OTHER -> op

\* The loop of traverse_follow over its items.
RECURSIVE traverse_follow(_)
traverse_follow(items) ==
    IF items = <<>>
    THEN EmptyTraverse
    ELSE LET item == items[Len(items)]
             op == traverse_follow(SubSeq(items, 1, Len(items) - 1))
         IN  IF item.tag = "str" THEN [op EXCEPT !.follow_type = Some(item.val)]
             ELSE IF item.tag # "tuple" THEN op
             ELSE CASE item.val[1] = "source_said" ->
                         [op EXCEPT !.from_said = Some(item.val[2])]
                    [] item.val[1] = "from_pattern" ->
                         [op EXCEPT !.from_pattern = Some(item.val[2]),
                                    !.from_condition = item.val[3]]
                    [] OTHER -> op

verify_op(items) ==
    LET contexts == ValuesOf(SubSeq(items, 2, Len(items)), "KeyStateContext")
    IN  Item("VerifyOperation",
             [said |-> items[1].val,
              is_variable |-> items[1].tag = "str" /\ StartsWithDollar(items[1].val),
              against_keystate |->
                  IF contexts # <<>> THEN Some(contexts[Len(contexts)]) ELSE None])

\* field_ref: ".".join(items); the model keeps the segments.
field_ref(items) == Item("path", [i \in 1 .. Len(items) |-> items[i].val])

\* comp_map.get(comp_str, Comparator.EQ) of condition, by Comparator value.
comp_map(comp_str) ==
    IF comp_str \in {"=", "!=", "<", ">", "<=", ">=", "LIKE", "CONTAINS", "IN"}
    THEN comp_str
    ELSE "="

\* condition.
condition(items) ==
    IF Len(items) = 1 /\ items[1].tag = "Condition"
    THEN items[1]
    ELSE LET is_not == items # <<>> /\ Upper(Str(items[1])) = "NOT"
             i == IF is_not THEN 2 ELSE 1
         IN  IF Len(items) >= i /\ items[i].tag = "Condition"
             THEN Item("Condition", [items[i].val EXCEPT !.negated = is_not])
             ELSE Item("Condition",
                       Condition(IF Len(items) >= i THEN items[i].val ELSE <<>>,
                                 IF Len(items) >= i + 1
                                 THEN comp_map(Upper(Str(items[i + 1])))
                                 ELSE "=",
                                 OptionalItem(ItemOr(items, i + 2)),
                                 is_not))

where_clause(items) ==
    Item("WhereClause", [conditions |-> IF items # <<>> THEN items[1].val ELSE <<>>])

with_option(items) == Item("str", IF items # <<>> THEN Upper(Str(items[1])) ELSE "PROOF")

with_clause(items) ==
    Item("WithOptions",
         [include_proof |-> \E i \in 1 .. Len(items) : items[i] = Item("str", "PROOF"),
          include_keystate |-> \E i \in 1 .. Len(items) : items[i] = Item("str", "KEYSTATE"),
          include_sources |-> \E i \in 1 .. Len(items) : items[i] = Item("str", "SOURCES")])

order_clause(items) ==
    LET directions == ValuesOf(SubSeq(items, 2, Len(items)), "SortDirection")
    IN  Item("OrderClause",
             [field |-> items[1].val,
              direction |-> IF directions # <<>> THEN directions[Len(directions)]
                            ELSE "ASC"])

\* return_item for an expression that is no ReturnItem yet.
return_item(items) ==
    IF items[1].tag = "ReturnItem"
    THEN items[1]
    ELSE Item("ReturnItem", [expression |-> items[1].val])

return_clause(items) ==
    Item("ReturnClause", [items |-> IF items # <<>> THEN items[1].val ELSE <<>>])

\* modifier_clause: a dict of the modifiers, a later one replacing an
\* earlier one of its kind.
RECURSIVE modifier_clause(_)
modifier_clause(items) ==
    IF items = <<>>
    THEN EmptyDict
    ELSE LET item == items[Len(items)]
             rest == modifier_clause(SubSeq(items, 1, Len(items) - 1))
         IN  CASE item.tag = "WhereClause" -> ("where" :> item) @@ rest
               [] item.tag = "WithOptions" -> ("with" :> item) @@ rest
               [] item.tag = "OrderClause" -> ("order" :> item) @@ rest
               [] item.tag = "tuple" /\ item.val[1] = "limit" ->
                      ("limit" :> Item("int", item.val[2])) @@ rest
               [] OTHER -> rest

\* KGQLTransformer.query: the loop over the items of the query rule.
RECURSIVE transform_query(_)
transform_query(items) ==
    IF items = <<>>
    THEN EmptyQuery
    ELSE LET item == items[Len(items)]
             q == transform_query(SubSeq(items, 1, Len(items) - 1))
         IN  CASE item.tag = "dict"
                  /\ DOMAIN item.val \cap {"keystate", "governance"} # {} ->
                      [q EXCEPT !.keystate_context = Optional(Get(item.val, "keystate")),
                                !.governance_context = Optional(Get(item.val, "governance"))]
               [] item.tag = "MatchOperation" -> [q EXCEPT !.match = Some(item.val)]
               [] item.tag = "ResolveOperation" -> [q EXCEPT !.resolve = Some(item.val)]
               [] item.tag = "TraverseOperation" -> [q EXCEPT !.traverse = Some(item.val)]
               [] item.tag = "VerifyOperation" -> [q EXCEPT !.verify = Some(item.val)]
               [] item.tag = "dict"
                  /\ DOMAIN item.val \cap {"where", "with", "order", "limit"} # {} ->
                      [q EXCEPT !.where = Optional(Get(item.val, "where")),
                                !.with_options = Optional(Get(item.val, "with")),
                                !.order_by = Optional(Get(item.val, "order")),
                                !.limit = Optional(Get(item.val, "limit"))]
               [] item.tag = "ReturnClause" -> [q EXCEPT !.return_clause = Some(item.val)]
               [] OTHER -> q

\* The callback of a rule or alias on the items of its kept children.
callback(rule, items) ==
    CASE rule \in {"i2i", "di2i", "ni2i"} ->
             Item("EdgeOperator", CASE rule = "i2i" -> "I2I" [] rule = "di2i" -> "DI2I"
                                    [] OTHER -> "NI2I")
      [] rule = "any_op" -> Item("EdgeOperator", "ANY")
      [] rule = "keystate_spec" -> keystate_spec(items)
      [] rule = "keystate_context" -> Item("tuple", <<"keystate", items[1]>>)
      [] rule = "governance_context" ->
             Item("tuple", <<"governance", Item("GovernanceContext", [framework |-> items[1].val])>>)
      [] rule = "context_clause" -> Item("dict", context_clause(items))
      [] rule = "node_pattern" -> node_pattern(items)
      [] rule \in {"edge_var_only", "edge_type_only", "edge_var_type", "edge_op_only",
                   "edge_colon_op_only"} -> edge_alternative(rule, items)
      [] rule = "edge_spec" -> edge_spec(items)
      [] rule = "edge_pattern" -> edge_pattern(items)
      [] rule = "pattern" -> pattern(items)
      [] rule = "pattern_list" -> pattern_list(items)
      [] rule = "match_op" -> match_op(items)
      [] rule = "resolve_op" -> resolve_op(items)
      [] rule = "from_pattern" -> end_pattern("from_pattern", items)
      [] rule = "to_pattern" -> end_pattern("to_pattern", items)
      [] rule = "via_clause" -> Item("tuple", <<"via", items[1].val>>)
      [] rule = "traverse_source" -> traverse_end("source_said", "from_pattern", items)
      [] rule = "traverse_target" -> traverse_end("target_said", "to_pattern", items)
      [] rule = "traverse_to_via" -> Item("TraverseOperation", traverse_to_via(items))
      [] rule = "traverse_follow" -> Item("TraverseOperation", traverse_follow(items))
      [] rule = "traverse_op" ->
             IF items # <<>> THEN items[1] ELSE Item("TraverseOperation", EmptyTraverse)
      [] rule = "against_clause" -> items[1]
      [] rule = "verify_op" -> verify_op(items)
      [] rule = "field_ref" -> field_ref(items)
      [] rule = "value" -> items[1]
      [] rule = "value_list" -> Item("list", items)
      [] rule = "condition" -> condition(items)
      [] rule = "condition_list" -> Item("list", ValuesOf(items, "Condition"))
      [] rule = "where_clause" -> where_clause(items)
      [] rule = "with_option" -> with_option(items)
      [] rule = "with_clause" -> with_clause(items)
      [] rule = "sort_dir" -> IF items # <<>> THEN items[1] ELSE Item("SortDirection", "ASC")
      [] rule = "order_clause" -> order_clause(items)
      [] rule = "limit_clause" -> Item("tuple", <<"limit", items[1].val>>)
      [] rule = "return_item" -> return_item(items)
      [] rule = "return_list" -> Item("list", ValuesOf(items, "ReturnItem"))
      [] rule = "return_clause" -> return_clause(items)
      [] rule = "operation" -> IF items # <<>> THEN items[1] ELSE PyNone
      [] rule = "modifier" -> items[1]
      [] rule = "modifier_clause" -> Item("dict", modifier_clause(items))
      [] rule = "query" -> Item("KGQLQuery", transform_query(items))
      [] OTHER -> items[1]   \* start

\* The children of a rule that Lark puts in the parse tree: the tokens of
\* the literals written inside a rule are filtered out, named terminals
\* and rules are kept.
tree_children(node) == SelectSeq(node.children, LAMBDA child : child.rule # "ANON")

\* Lark building the tree with the transformer: the callbacks are applied
\* bottom-up, each to the transformed kept children of its node.
RECURSIVE transform(_)
transform(node) ==
    IF node.rule \in Terminals
    THEN terminal(node)
    ELSE LET kept == tree_children(node)
         IN  callback(node.rule, [i \in 1 .. Len(kept) |-> transform(kept[i])])

\* parse(query_string): the KGQLQuery of the text.
parse(t) == transform(query_tree(t)).val

ParserIdle ==
    /\ query_string = None
    /\ parsed = None

\* A caller holds a query text that has not been parsed yet.
ParserInit ==
    /\ query_string \in {Some(t) : t \in Texts}
    /\ parsed = None

\* parse(query_string): a parser is constructed and returns the AST.
parse_text ==
    /\ query_string # None
    /\ parsed = None
    /\ parsed' = Some(parse(query_string[1]))
    /\ UNCHANGED query_string

(***************************************************************************)
(* SPECIFICATIONS                                                          *)
(***************************************************************************)

\* The key-state resolver under every sequence of its calls.
ResolverInit ==
    ResolverStart /\ PlannerIdle /\ AnalyzerIdle /\ OperatorIdle /\ VerifierIdle /\ GovernanceIdle /\ ParserIdle

ResolverStep ==
    \/ \E aid \in Aids, seq \in OptSeqs :
           resolve(aid, seq) /\ UNCHANGED <<plannerVars, analyzerVars, operatorVars, verifierVars, governanceVars, parserVars>>
    \/ \E snapshot \in Snapshots :
           register(snapshot) /\ UNCHANGED <<plannerVars, analyzerVars, operatorVars, verifierVars, governanceVars, parserVars>>
    \/ clear_cache /\ UNCHANGED <<plannerVars, analyzerVars, operatorVars, verifierVars, governanceVars, parserVars>>

SpecResolver == ResolverInit /\ [][ResolverStep]_vars

\* The framework resolver under every sequence of its calls; the explicit
\* supersessions tried are newest-over-oldest and oldest-over-newest.
GovernanceStart ==
    /\ GovernanceInit
    /\ ResolverIdle /\ PlannerIdle /\ AnalyzerIdle /\ OperatorIdle
    /\ VerifierIdle /\ ParserIdle

GovernanceStep ==
    \/ \E framework \in Frameworks :
           register_framework(framework)
           /\ UNCHANGED <<resolverVars, plannerVars, analyzerVars, operatorVars, verifierVars, parserVars>>
    \/ \E pair \in {<<VersionSaids[MaxVersions], "EV1">>, <<"EV1", VersionSaids[MaxVersions]>>} :
           register_supersession(pair[1], pair[2])
           /\ UNCHANGED <<resolverVars, plannerVars, analyzerVars, operatorVars, verifierVars, parserVars>>
    \/ clear_framework_cache
       /\ UNCHANGED <<resolverVars, plannerVars, analyzerVars, operatorVars, verifierVars, parserVars>>
    \/ \E said \in FrameworkSaids :
           resolve_said(said)
           /\ UNCHANGED <<resolverVars, plannerVars, analyzerVars, operatorVars, verifierVars, parserVars>>
    \/ \E said \in FrameworkSaids :
           resolve_chain(said)
           /\ UNCHANGED <<resolverVars, plannerVars, analyzerVars, operatorVars, verifierVars, parserVars>>
    \/ \E said \in FrameworkSaids :
           resolve_active(said)
           /\ UNCHANGED <<resolverVars, plannerVars, analyzerVars, operatorVars, verifierVars, parserVars>>

SpecGovernance == GovernanceStart /\ [][GovernanceStep]_vars

\* The parser on every query text of the model.
ParserStart ==
    /\ ParserInit
    /\ ResolverIdle /\ PlannerIdle /\ AnalyzerIdle /\ OperatorIdle
    /\ VerifierIdle /\ GovernanceIdle

ParserStep ==
    parse_text
    /\ UNCHANGED <<resolverVars, plannerVars, analyzerVars, operatorVars, verifierVars, governanceVars>>

SpecParser == ParserStart /\ [][ParserStep]_vars

\* Callers of operator_satisfies.
OperatorStart ==
    OperatorInit /\ ResolverIdle /\ PlannerIdle /\ AnalyzerIdle /\ VerifierIdle /\ GovernanceIdle /\ ParserIdle

OperatorStep ==
    operator_check /\ UNCHANGED <<resolverVars, plannerVars, analyzerVars, verifierVars, governanceVars, parserVars>>

SpecOperator == OperatorStart /\ [][OperatorStep]_vars

\* One call of a TemporalVerifier over a KeyStateResolver that register and
\* clear_cache calls have prepared.  The verifier keeps no state of its own
\* and what a call leaves in the resolver is what register can put there,
\* so one call on every prepared resolver shows every call.
VerifierStart ==
    /\ ResolverStart
    /\ VerifierIdle /\ GovernanceIdle /\ ParserIdle
    /\ PlannerIdle /\ AnalyzerIdle /\ OperatorIdle

VerifierStep ==
    \/ \E said \in CredentialSaids, aid \in Aids, seq \in OptSeqs,
          verify_fn \in Opt(VerifyFns) :
           /\ verdict = None
           /\ verify_at_keystate(said, aid, seq, verify_fn)
           /\ UNCHANGED <<plannerVars, analyzerVars, operatorVars, governanceVars, parserVars>>
    \/ \E said \in CredentialSaids, issuer \in Aids, subject \in Aids,
          seq \in OptSeqs :
           /\ verdict = None
           /\ check_edge_at_keystate(said, issuer, subject, seq)
           /\ UNCHANGED <<plannerVars, analyzerVars, operatorVars, governanceVars, parserVars>>
    \/ check_edge_subject /\ UNCHANGED <<plannerVars, analyzerVars, operatorVars, governanceVars, parserVars>>
    \/ \E snapshot \in Snapshots :
           /\ verdict = None
           /\ resolver_call(register(snapshot))
           /\ UNCHANGED <<plannerVars, analyzerVars, operatorVars, governanceVars, parserVars>>
    \/ /\ verdict = None
       /\ resolver_call(clear_cache)
       /\ UNCHANGED <<plannerVars, analyzerVars, operatorVars, governanceVars, parserVars>>

SpecVerifier == VerifierStart /\ [][VerifierStep]_vars

\* The planner on every query of Queries.
PlannerStart ==
    PlannerInit /\ ResolverIdle /\ AnalyzerIdle /\ OperatorIdle /\ VerifierIdle /\ GovernanceIdle /\ ParserIdle

PlannerStep == plan_query /\ UNCHANGED <<resolverVars, analyzerVars, operatorVars, verifierVars, governanceVars, parserVars>>

SpecPlanner == PlannerStart /\ [][PlannerStep]_vars

\* One search of the analyzer, over every graph of Graphs.
AnalyzerStart ==
    AnalyzerInit /\ ResolverIdle /\ PlannerIdle /\ OperatorIdle /\ VerifierIdle /\ GovernanceIdle /\ ParserIdle

AnalyzerStep ==
    \/ \E a \in SearchArgs :
           shortest_path(a) /\ UNCHANGED <<resolverVars, plannerVars, operatorVars, verifierVars, governanceVars, parserVars>>
    \/ shortest_path_step /\ UNCHANGED <<resolverVars, plannerVars, operatorVars, verifierVars, governanceVars, parserVars>>
    \/ \E a \in SearchArgs :
           find_paths(a) /\ UNCHANGED <<resolverVars, plannerVars, operatorVars, verifierVars, governanceVars, parserVars>>
    \/ find_paths_step /\ UNCHANGED <<resolverVars, plannerVars, operatorVars, verifierVars, governanceVars, parserVars>>

SpecAnalyzer == AnalyzerStart /\ [][AnalyzerStep]_vars

\* The graphs made of the edges of EdgePool that lie on a cycle or lead
\* into or out of one: the cycle through the root, the cycle between the
\* intermediate identifiers and the self-loop among them.
CycleEdges == {1, 3, 5, 7, 8, 9, 10}

CyclicGraphs == {{EdgePool[i] : i \in I} : I \in SUBSET CycleEdges}

AnalyzerLiveStart ==
    /\ _neighbor_fn \in Opt(CyclicGraphs)
    /\ call = NoCall
    /\ work = <<>>
    /\ paths = <<>>
    /\ returned = <<>>
    /\ pc = "idle"
    /\ ResolverIdle
    /\ PlannerIdle
    /\ OperatorIdle
    /\ VerifierIdle /\ GovernanceIdle /\ ParserIdle

\* The same search run to its end: a while loop that has started keeps
\* iterating, nothing else runs in between.
SpecAnalyzerLive ==
    /\ AnalyzerLiveStart
    /\ [][AnalyzerStep]_vars
    /\ WF_vars(shortest_path_step /\ UNCHANGED <<resolverVars, plannerVars, operatorVars, verifierVars, governanceVars, parserVars>>)
    /\ WF_vars(find_paths_step /\ UNCHANGED <<resolverVars, plannerVars, operatorVars, verifierVars, governanceVars, parserVars>>)

(***************************************************************************)
(* CLAIMS ABOUT THE PLANNER                                                *)
(***************************************************************************)

\* The method kind C2 names for a policy-load step.  MethodType of
\* planner.py has no such member and plan() builds no step of that kind.
FRAMEWORK_LOAD == "framework_load"

\* C1: for every query with a temporal (AT KEYSTATE) scope, whatever its
\* operation, the plan's step 0 is the key-state resolution step: method
\* kind KEVER_STATE, args aid and seq taken from the scope (seq absent when
\* the scope has none), result slot keystate_snapshot; every other step
\* comes after it.
C1_KeystateStepFirst ==
    (planned # None /\ query[1].keystate_context # None) =>
        LET steps == planned[1].steps
            ctx == query[1].keystate_context[1]
        IN  /\ Len(steps) >= 1
            /\ steps[1].method_type = KEVER_STATE
            /\ {"aid", "seq"} \subseteq DOMAIN steps[1].args
            /\ steps[1].args.aid = ctx.aid
            /\ steps[1].args.seq = ctx.seq
            /\ steps[1].result_key = "keystate_snapshot"
            /\ \A i \in 2 .. Len(steps) : steps[i].method_type # KEVER_STATE

\* C2: for every query with a policy (WITHIN FRAMEWORK) scope, the plan has
\* a policy-load step (FRAMEWORK_LOAD carrying the framework id) that
\* precedes every operation step, and the plan records the framework id;
\* with a temporal scope too, the key-state step is step 0 and the
\* policy-load step is step 1.
C2_FrameworkStepBeforeOperation ==
    (planned # None /\ query[1].governance_context # None) =>
        LET steps == planned[1].steps
            framework == query[1].governance_context[1].framework
            at == IF query[1].keystate_context # None THEN 2 ELSE 1
        IN  /\ Len(steps) >= at
            /\ steps[at].method_type = FRAMEWORK_LOAD
            /\ "framework_said" \in DOMAIN steps[at].args
            /\ steps[at].args.framework_said = framework
            /\ \A i \in 1 .. Len(steps) :
                   i # at => steps[i].method_type # FRAMEWORK_LOAD
            /\ query[1].keystate_context # None =>
                   steps[1].method_type = KEVER_STATE
            /\ "framework_said" \in DOMAIN planned[1]
            /\ planned[1].framework_said = Some(framework)

\* C18: in every plan that plan() produces, each step's dependency list
\* holds only indices (counted from 0) of steps that come strictly earlier
\* in the plan: no forward reference, no self reference, no cycle.
C18_DependenciesPointBack ==
    planned # None =>
        LET steps == planned[1].steps
        IN  \A i \in 1 .. Len(steps) :
                \A k \in 1 .. Len(steps[i].depends_on) :
                    /\ steps[i].depends_on[k] >= 0
                    /\ steps[i].depends_on[k] < i - 1

\* C18 witness: a plan of four steps in which the second depends on the
\* first and the fourth on the third.
C18_Witness ==
    /\ planned # None
    /\ Len(planned[1].steps) = 4
    /\ planned[1].steps[2].depends_on = <<0>>
    /\ planned[1].steps[4].depends_on = <<2>>

\* The query planned is a Match query.
MatchPlanned == planned # None /\ query[1].match # None

\* The conditions of the WHERE clause of the query, none when it has none.
WhereConditions ==
    IF query[1].where # None THEN query[1].where[1].conditions ELSE <<>>

\* The entry of the strategy table for a node and a condition: an index, or
\* None when the table has none for (node type, last segment of the field).
StrategyOf(node, cond) ==
    LET key == <<node.node_type[1], cond.field[Len(cond.field)]>>
    IN  IF key \in DOMAIN _index_map THEN _index_map[key] ELSE None

\* The steps of a plan that read credentials, in plan order.
AccessSteps == SelectSeq(planned[1].steps, LAMBDA st : st.method_type = REGER_INDEX)

\* C19: for each pattern of a Match query the planner emits exactly one
\* access step: an indexed-access step, on the index of the first WHERE
\* condition that has one in the strategy table and keyed by that
\* condition's value, if and only if some condition has one; otherwise a
\* full-scan step over all credentials, distinguishable from indexed
\* access, whose residual filter holds every WHERE condition (no filter
\* when there is no WHERE).
C19_OneAccessStepPerPattern ==
    MatchPlanned =>
        LET patterns == query[1].match[1].patterns
            conds == WhereConditions
        IN  /\ Len(AccessSteps) = Len(patterns)
            /\ \A j \in 1 .. Len(patterns) :
                   LET node == patterns[j][1]
                       st == AccessSteps[j]
                       indexed == {i \in 1 .. Len(conds) :
                                      StrategyOf(node, conds[i]) # None}
                   IN  IF indexed # {}
                       THEN LET first == CHOOSE i \in indexed :
                                             \A h \in indexed : i <= h
                            IN  /\ st.args.index = StrategyOf(node, conds[first])[1][1]
                                /\ st.args.index \in {"issus", "subjs", "schms"}
                                /\ st.args.keys = conds[first].value
                       ELSE /\ st.args.index = "creds"
                            /\ st.method_name = "getItemIter"
                            /\ "keys" \notin DOMAIN st.args
                            /\ conds = <<>> => "filter" \notin DOMAIN st.args
                            /\ conds # <<>> =>
                                   /\ "filter" \in DOMAIN st.args
                                   /\ \A i \in 1 .. Len(conds) :
                                          /\ conds[i].field \in DOMAIN st.args.filter
                                          /\ st.args.filter[conds[i].field] =
                                                 [op |-> conds[i].comparator,
                                                  value |-> conds[i].value,
                                                  negated |-> conds[i].negated]

\* What C20 expects of the plan of a list of patterns: per pattern an
\* access step, followed by a chain step when its edge has an operator
\* other than ANY.
RECURSIVE ExpectedLayout(_, _)
ExpectedLayout(patterns, i) ==
    IF i > Len(patterns)
    THEN <<>>
    ELSE LET edge == patterns[i][2]
         IN  <<[kind |-> "access", operator |-> "ANY"]>>
             \o (IF edge # None /\ edge[1].operator # "ANY"
                 THEN <<[kind |-> "chain", operator |-> edge[1].operator]>>
                 ELSE <<>>)
             \o ExpectedLayout(patterns, i + 1)

\* C20: for each Match pattern whose edge has an operator other than ANY,
\* the plan has one chain-verification step carrying that operator,
\* directly after that pattern's access step and depending on exactly that
\* step; a pattern with no edge or with an ANY edge gets none.
C20_ChainStepAfterAccessStep ==
    MatchPlanned =>
        LET steps == planned[1].steps
            layout == ExpectedLayout(query[1].match[1].patterns, 1)
        IN  /\ Len(steps) = Len(layout)
            /\ \A i \in 1 .. Len(steps) :
                   IF layout[i].kind = "chain"
                   THEN /\ steps[i].method_type = VERIFIER_CHAIN
                        /\ steps[i].args.operator = layout[i].operator
                        /\ steps[i].depends_on = <<i - 2>>
                        /\ steps[i - 1].method_type = REGER_INDEX
                   ELSE steps[i].method_type = REGER_INDEX

\* C20 witness: a Match of two patterns, the first with an I2I edge and the
\* second with an ANY edge, planned as access, chain, access.
C20_Witness ==
    /\ MatchPlanned
    /\ Len(query[1].match[1].patterns) = 2
    /\ query[1].match[1].patterns[1][2] # None
    /\ query[1].match[1].patterns[1][2][1].operator = "I2I"
    /\ query[1].match[1].patterns[2][2] # None
    /\ query[1].match[1].patterns[2][2][1].operator = "ANY"
    /\ Len(planned[1].steps) = 3
    /\ planned[1].steps[2].method_type = VERIFIER_CHAIN

\* The query planned is a Traverse query.
TraversePlanned == planned # None /\ query[1].traverse # None

\* C21: for every Traverse query, whether its start is a literal, a
\* variable or a node pattern, the plan is a resolve step for the start
\* node directly followed by one traversal step whose dependency list holds
\* the index of the resolve step; a target, when given, is in the arguments
\* of the traversal step and adds no step.
C21_TraverseResolvesStart ==
    TraversePlanned =>
        LET steps == planned[1].steps
            t == query[1].traverse[1]
        IN  /\ Len(steps) = 2
            /\ steps[1].method_type = REGER_CLONE
            /\ steps[2].method_type = REGER_SOURCES
            /\ \E k \in 1 .. Len(steps[2].depends_on) : steps[2].depends_on[k] = 0
            /\ (t.to_said # None \/ t.to_pattern # None) =>
                   /\ "target_said" \in DOMAIN steps[2].args
                   /\ steps[2].args.target_said = t.to_said
                   /\ steps[2].args.target_pattern = t.to_pattern

\* The query planned is a Verify query.
VerifyPlanned == planned # None /\ query[1].verify # None

\* The verification steps of the plan.
VerifySteps ==
    SelectSeq(planned[1].steps, LAMBDA st : st.method_type = VERIFIER_CHAIN)

\* C22: the verification step of a Verify query carries the key state
\* (aid, seq) of the inline AGAINST clause whenever there is one, also under
\* an outer AT KEYSTATE scope; the outer scope's key state only when there
\* is no AGAINST clause; no key state when there is neither.
C22_AgainstOverridesOuterScope ==
    VerifyPlanned =>
        LET against == query[1].verify[1].against_keystate
            outer == query[1].keystate_context
            st == VerifySteps[1]
        IN  /\ Len(VerifySteps) = 1
            /\ IF against # None
               THEN /\ st.args.keystate_aid = Some(against[1].aid)
                    /\ st.args.keystate_seq = against[1].seq
               ELSE IF outer # None
               THEN /\ st.args.keystate_aid = Some(outer[1].aid)
                    /\ st.args.keystate_seq = outer[1].seq
               ELSE /\ st.args.keystate_aid = None
                    /\ st.args.keystate_seq = None

\* C22 witness: a Verify query with an AGAINST clause inside an outer scope
\* of another identifier was planned with the key state of the clause.
C22_Witness ==
    /\ VerifyPlanned
    /\ query[1].verify[1].against_keystate # None
    /\ query[1].keystate_context # None
    /\ query[1].keystate_context[1].aid # query[1].verify[1].against_keystate[1].aid
    /\ VerifySteps[1].args.keystate_aid =
           Some(query[1].verify[1].against_keystate[1].aid)

\* The argument names under which a step would repeat a plan-level modifier.
ModifierArgs ==
    {"limit", "order_by", "order_direction", "include_proof",
     "include_keystate", "return_fields"}

\* C23: the plan-level modifiers copy the query's modifiers exactly: limit is
\* the LIMIT value for every value of the grammar, zero included, order_by
\* and order_direction are the ORDER BY field and direction, include_proof
\* and include_keystate are the WITH options, return_fields lists the RETURN
\* expressions in order, and no step repeats one of them in its arguments.
C23_ModifiersCopied ==
    planned # None =>
        LET q == query[1]
            p == planned[1]
        IN  /\ p.limit = q.limit
            /\ q.order_by # None =>
                   /\ p.order_by = Some(q.order_by[1].field)
                   /\ p.order_direction = q.order_by[1].direction
            /\ q.with_options # None =>
                   /\ p.include_proof = q.with_options[1].include_proof
                   /\ p.include_keystate = q.with_options[1].include_keystate
            /\ q.return_clause # None =>
                   /\ Len(p.return_fields) = Len(q.return_clause[1].items)
                   /\ \A i \in 1 .. Len(p.return_fields) :
                          p.return_fields[i] = q.return_clause[1].items[i].expression
            /\ \A k \in 1 .. Len(p.steps) :
                   DOMAIN p.steps[k].args \cap ModifierArgs = {}

\* The modifiers are copied exactly whenever the LIMIT value is not zero.
C23_ModifiersCopiedNonZeroLimit ==
    (planned # None /\ query[1].limit # Some(0)) => C23_ModifiersCopied

\* The access step st represents the condition cond of a pattern on node:
\* st is the indexed-access step of the strategy of cond keyed by its value,
\* or st has a residual filter with the entry of cond.
Represents(st, node, cond) ==
    \/ /\ "keys" \in DOMAIN st.args
       /\ StrategyOf(node, cond) # None
       /\ st.args.index = StrategyOf(node, cond)[1][1]
       /\ st.args.keys = cond.value
    \/ /\ "filter" \in DOMAIN st.args
       /\ cond.field \in DOMAIN st.args.filter
       /\ st.args.filter[cond.field] =
              [op |-> cond.comparator, value |-> cond.value, negated |-> cond.negated]

\* C28: planning drops no WHERE condition of a Match query: for every
\* pattern, every condition is represented by the pattern's access step,
\* as the key of the indexed access chosen for it or as an entry of the
\* residual filter, also when another condition selected an index and when
\* two conditions constrain the same field.
C28_NoConditionDropped ==
    MatchPlanned =>
        \A j \in 1 .. Len(AccessSteps) :
            j <= Len(query[1].match[1].patterns) =>
                \A i \in 1 .. Len(WhereConditions) :
                    Represents(AccessSteps[j], query[1].match[1].patterns[j][1],
                               WhereConditions[i])

\* With at most one WHERE condition nothing is dropped.
C28_SingleConditionKept ==
    Len(IF query # None THEN WhereConditions ELSE <<>>) <= 1 =>
        C28_NoConditionDropped

\* The condition that selects the index of a pattern on node: the first
\* WHERE condition with a strategy; None when no condition has one.
ChosenCondition(node) ==
    LET indexed == {i \in 1 .. Len(WhereConditions) :
                       StrategyOf(node, WhereConditions[i]) # None}
    IN  IF indexed = {} THEN None
        ELSE Some(WhereConditions[CHOOSE i \in indexed : \A h \in indexed : i <= h])

\* C29: an indexed-access step keyed by a condition's value is planned only
\* for a non-negated equality test; a condition on an indexed field with
\* another comparator, or a negated one, gives no index lookup for its value.
C29_IndexOnlyForEquality ==
    MatchPlanned =>
        \A j \in 1 .. Len(AccessSteps) :
            (/\ j <= Len(query[1].match[1].patterns)
             /\ "keys" \in DOMAIN AccessSteps[j].args) =>
                LET chosen == ChosenCondition(query[1].match[1].patterns[j][1])
                IN  /\ chosen # None
                    /\ AccessSteps[j].args.keys = chosen[1].value
                    /\ chosen[1].comparator = "="
                    /\ ~chosen[1].negated

(***************************************************************************)
(* CLAIMS ABOUT THE KEY-STATE RESOLVER                                     *)
(***************************************************************************)

\* C3: once resolve(id, N) has returned a snapshot S, every later
\* resolve(id, N) returns that same S, whatever resolve and register calls
\* come in between, as long as none is clear_cache: the cached (id, N)
\* entry is never replaced, recomputed or invalidated.
C3_ResolvedSnapshotPermanent ==
    [][ret'.op # "clear_cache" =>
          \A key \in resolved :
              /\ key \in DOMAIN _cache'
              /\ _cache'[key] = _cache[key]
              /\ (ret'.op = "resolve" /\ ret'.seq # None
                      /\ <<ret'.aid, ret'.seq[1]>> = key)
                    => ret'.result = Some(_cache[key])]_vars

Highest(S) == CHOOSE n \in S : \A m \in S : m <= n

\* C4: for each identifier the sequence number of the snapshot in the
\* 'current' index never decreases over resolve and register calls without
\* clear_cache, and after each call it is the highest sequence number
\* resolved or registered for that identifier so far.
C4_CurrentIsHighestSeen ==
    [][/\ ret'.op # "clear_cache" =>
             \A aid \in DOMAIN _current :
                 /\ aid \in DOMAIN _current'
                 /\ _current'[aid].seq >= _current[aid].seq
       /\ \A aid \in Aids :
             /\ seen'[aid] # {} =>
                   /\ aid \in DOMAIN _current'
                   /\ _current'[aid].seq = Highest(seen'[aid])
             /\ aid \in DOMAIN _current' => _current'[aid].seq \in seen'[aid]]_vars

\* C4 witness: a lower sequence number has just been resolved through the
\* lookup while a higher one is the current state of that identifier.
C4_Witness ==
    /\ ret.op = "resolve" /\ ret.seq # None /\ ret.result # None
    /\ ret.lookup = "kever"
    /\ ret.aid \in DOMAIN _current
    /\ _current[ret.aid].seq > ret.seq[1]

C6_CurrentServedWithoutLookup ==
    [][(ret'.op = "resolve" /\ ret'.seq = None) =>
          /\ ret'.aid \in DOMAIN _current =>
                /\ ret'.result = Some(_current[ret'.aid])
                /\ ret'.lookup = "not called"
          /\ ret'.lookup # "not called" =>
                /\ seen[ret'.aid] = {}
                /\ \A key \in DOMAIN _cache : key[1] # ret'.aid]_vars

\* C6 witness: a seq-absent request answered from the 'current' index.
C6_Witness ==
    /\ ret.op = "resolve" /\ ret.seq = None
    /\ ret.result # None /\ ret.lookup = "not called"
    /\ ret.result = Some(_current[ret.aid])

\* C7: when the lookup returns nothing, or none is configured and the key
\* is not cached, resolve returns absent and leaves both caches exactly as
\* they were; absence is not cached, so every resolve that returns absent
\* under a configured lookup has consulted it.
C7_AbsentLeavesCachesAlone ==
    [][ret'.op = "resolve" =>
          /\ (\/ ret'.lookup = "nothing"
              \/ /\ _get_kever = "none"
                 /\ IF ret'.seq # None
                    THEN <<ret'.aid, ret'.seq[1]>> \notin DOMAIN _cache
                    ELSE ret'.aid \notin DOMAIN _current)
             => /\ ret'.result = None
                /\ _cache' = _cache
                /\ _current' = _current
          /\ ret'.result = None =>
                /\ _cache' = _cache
                /\ _current' = _current
                /\ _get_kever = "getter" => ret'.lookup = "nothing"]_vars

\* C7 witness: the lookup has just returned nothing for a key while
\* snapshots of other keys stay cached.
C7_Witness ==
    /\ ret.op = "resolve" /\ ret.result = None /\ ret.lookup = "nothing"
    /\ _cache # EmptyDict

\* C30: in every reachable state of a resolver, after any sequence of
\* resolve, register and clear_cache calls, the two caches agree: an
\* identifier has a 'current' entry if and only if some (identifier, seq)
\* entry is cached for it, the current entry is the snapshot cached under
\* (identifier, its own seq), and clear_cache leaves both empty.
C30_CachesAgree ==
    /\ \A aid \in Aids :
           /\ aid \in DOMAIN _current <=> \E key \in DOMAIN _cache : key[1] = aid
           /\ aid \in DOMAIN _current =>
                  /\ _current[aid].aid = aid
                  /\ <<aid, _current[aid].seq>> \in DOMAIN _cache
                  /\ _cache[<<aid, _current[aid].seq>>] = _current[aid]
    /\ DOMAIN _current \subseteq Aids
    /\ ret.op = "clear_cache" => _cache = EmptyDict /\ _current = EmptyDict

\* C30 witness: a snapshot with a lower sequence number was registered after
\* a higher one: both are cached, and the current entry is still the higher
\* one, as cached under its own sequence number.
C30_Witness ==
    /\ ret.op = "register"
    /\ ret.aid \in DOMAIN _current
    /\ ret.seq[1] < _current[ret.aid].seq
    /\ <<ret.aid, ret.seq[1]>> \in DOMAIN _cache
    /\ _cache[<<ret.aid, _current[ret.aid].seq>>] = _current[ret.aid]

(***************************************************************************)
(* CLAIMS ABOUT THE TRUST PATH ANALYZER                                    *)
(***************************************************************************)

\* The total order I2I > DI2I > NI2I > ANY, as the pairs (actual, required)
\* in which actual is at least as strong as required.
AtLeastAsStrong ==
    {<<"I2I", "I2I">>, <<"I2I", "DI2I">>, <<"I2I", "NI2I">>, <<"I2I", "ANY">>,
     <<"DI2I", "DI2I">>, <<"DI2I", "NI2I">>, <<"DI2I", "ANY">>,
     <<"NI2I", "NI2I">>, <<"NI2I", "ANY">>,
     <<"ANY", "ANY">>}

PassesFilters(edge, c) ==
    /\ c.edge_type_filter # None => edge.edge_type = c.edge_type_filter[1]
    /\ c.operator_filter # None =>
           <<edge.operator, c.operator_filter[1]>> \in AtLeastAsStrong

\* The identifiers along a sequence of edges that starts at root.
Visited(root, es) == <<root>> \o [i \in 1 .. Len(es) |-> es[i].target]

\* es is a simple path from c.root_said to c.target_said of at most
\* c.max_depth edges, each passing the filters of c.
IsAdmissible(es, c) ==
    LET ids == Visited(c.root_said, es)
    IN  /\ Len(es) <= c.max_depth
        /\ \A i \in 1 .. Len(es) : es[i].source = ids[i]
        /\ ids[Len(ids)] = c.target_said
        /\ \A i, j \in 1 .. Len(ids) : i # j => ids[i] # ids[j]
        /\ \A i \in 1 .. Len(es) : PassesFilters(es[i], c)

\* The sequences of at most n edges of the graph in which each edge starts
\* where the one before it ends.
RECURSIVE Walks(_, _)
Walks(graph, n) ==
    IF n = 0
    THEN {<<>>}
    ELSE LET shorter == Walks(graph, n - 1)
         IN  shorter \cup
                 {Append(es, e) : <<es, e>> \in
                     {t \in shorter \X graph :
                         t[1] = <<>> \/ t[1][Len(t[1])].target = t[2].source}}

\* Every admissible path of the graph for the search c, as edge sequences.
AdmissiblePaths(graph, c) ==
    {es \in Walks(graph, c.max_depth) : IsAdmissible(es, c)}

\* The edges a returned path went over.
EdgesOf(p) ==
    [i \in 1 .. Len(p.steps) |->
        [source |-> p.steps[i].source_said, target |-> p.steps[i].target_said,
         edge_type |-> p.steps[i].edge_type, operator |-> p.steps[i].operator]]

Finished(fn) == pc = "done" /\ call.fn = fn /\ _neighbor_fn # None

\* C8: for root different from target, shortest_path returns a path whose
\* number of steps is the least number of steps of any admissible path
\* (simple, at most max_depth steps, every edge passing both filters), and
\* it returns absent exactly when there is no admissible path.
C8_ShortestPathIsMinimal ==
    (Finished("shortest_path") /\ call.root_said # call.target_said) =>
        LET admissible == AdmissiblePaths(_neighbor_fn[1], call)
        IN  /\ (returned = None) <=> (admissible = {})
            /\ returned # None =>
                   \A es \in admissible : depth(returned[1]) <= Len(es)

\* C8 witness: shortest_path returned a three-step path although the graph
\* has a two-step route from root to target, which the filters exclude.
C8_Witness ==
    /\ Finished("shortest_path")
    /\ returned # None
    /\ depth(returned[1]) = 3
    /\ \E e, f \in _neighbor_fn[1] :
           /\ e.source = call.root_said /\ e.target = f.source
           /\ f.target = call.target_said
           /\ f.source \notin {call.root_said, call.target_said}

\* C9: find_paths returns exactly the admissible paths: each admissible
\* edge sequence appears once in the result and nothing else does; two
\* admissible paths through the same intermediate identifier are both
\* returned.
C9_FindPathsExact ==
    Finished("find_paths") =>
        LET admissible == AdmissiblePaths(_neighbor_fn[1], call)
        IN  /\ {EdgesOf(returned[i]) : i \in 1 .. Len(returned)} = admissible
            /\ Len(returned) = Cardinality(admissible)
            /\ \A i \in 1 .. Len(returned) :
                   /\ returned[i].root_said = call.root_said
                   /\ returned[i].target_said = call.target_said

\* C9 witness: find_paths returned two different two-step paths that pass
\* through the same intermediate identifier.
C9_Witness ==
    /\ Finished("find_paths")
    /\ \E i, j \in 1 .. Len(returned) :
           /\ i # j
           /\ depth(returned[i]) = 2 /\ depth(returned[j]) = 2
           /\ returned[i].steps[1].target_said = returned[j].steps[1].target_said

\* C10: every path returned by shortest_path or find_paths is admissible:
\* it starts at root, each step starts where the previous one ended, it
\* ends at target, no identifier occurs twice on it, it has at most
\* max_depth steps, every step has the edge type of edge_type_filter when
\* that is set and an operator at least as strong as operator_filter when
\* that is set.
C10_ReturnedPathsAdmissible ==
    (pc = "done" /\ call.fn \in {"shortest_path", "find_paths"}) =>
        \A k \in 1 .. Len(returned) :
            LET steps == returned[k].steps
                n == Len(steps)
                ids == <<call.root_said>> \o [i \in 1 .. n |-> steps[i].target_said]
            IN  /\ n > 0 => steps[1].source_said = call.root_said
                /\ \A i \in 2 .. n : steps[i].source_said = steps[i - 1].target_said
                /\ ids[n + 1] = call.target_said
                /\ \A i, j \in 1 .. n + 1 : i # j => ids[i] # ids[j]
                /\ n <= call.max_depth
                /\ call.edge_type_filter # None =>
                       \A i \in 1 .. n : steps[i].edge_type = call.edge_type_filter[1]
                /\ call.operator_filter # None =>
                       \A i \in 1 .. n :
                           <<steps[i].operator, call.operator_filter[1]>>
                               \in AtLeastAsStrong

\* C10 witness: a search with both filters set returned a two-step path
\* through a graph that also has an edge each filter alone rejects.
C10_Witness ==
    /\ pc = "done" /\ call.fn = "find_paths"
    /\ call.edge_type_filter # None /\ call.operator_filter # None
    /\ \E k \in 1 .. Len(returned) : depth(returned[k]) = 2
    /\ \E e \in _neighbor_fn[1] : e.edge_type # call.edge_type_filter[1]
    /\ \E e \in _neighbor_fn[1] :
           <<e.operator, call.operator_filter[1]>> \notin AtLeastAsStrong

\* The identifiers along the branch of a work-list entry, root first.
BranchIds(entry) ==
    <<call.root_said>> \o [i \in 1 .. Len(entry.path) |-> entry.path[i].target_said]

\* No entry of the work list holds an identifier twice, and its visited set
\* is the set of identifiers on its branch.
NoAncestorRevisited ==
    \A k \in 1 .. Len(work) :
        LET ids == BranchIds(work[k])
        IN  /\ \A i, j \in 1 .. Len(ids) : i # j => ids[i] # ids[j]
            /\ ids[Len(ids)] = work[k].current
            /\ work[k].visited = {ids[i] : i \in 1 .. Len(ids)}

\* C11: shortest_path and find_paths terminate on every graph, cycles and
\* self-loops included, for every max_depth: no branch of the search ever
\* revisits one of its own ancestors, and a search that has entered its
\* loop finishes.
C11_SearchTerminates ==
    /\ []NoAncestorRevisited
    /\ (pc \in {"bfs", "dfs"}) ~> (pc = "done")

\* C11 witness: a search to the full depth has finished on a graph that
\* holds a cycle between two identifiers reachable from the root and a
\* self-loop.
C11_Witness ==
    /\ pc = "done" /\ _neighbor_fn # None
    /\ call.max_depth = MaxDepth
    /\ call.edge_type_filter = None /\ call.operator_filter = None
    /\ \E e, f, g, h \in _neighbor_fn[1] :
           /\ e.source = call.root_said /\ e.target = f.source
           /\ f.target = g.source /\ g.target = f.source
           /\ f.source # g.source
           /\ h.source = h.target

IndexIn(seq, x) == CHOOSE i \in 1 .. Len(seq) : seq[i] = x

\* The paths of a finishing find_paths in the order of their discovery: the
\* list collected before the last iteration, and the path that iteration
\* added, if it added one.
Discovered(before, result) ==
    IF Len(result) = Len(before)
    THEN before
    ELSE Append(before,
                CHOOSE p \in {result[i] : i \in 1 .. Len(result)} :
                    p \notin {before[i] : i \in 1 .. Len(before)})

\* C12: the list returned by find_paths is ordered by non-decreasing depth,
\* and paths of equal depth keep the relative order in which the
\* depth-first search discovered them.
C12_SortedByDepthStable ==
    [][(pc = "dfs" /\ pc' = "done") =>
          LET found == Discovered(paths, returned')
          IN  /\ Len(returned') = Len(found)
              /\ \A i \in 1 .. Len(returned') - 1 :
                     depth(returned'[i]) <= depth(returned'[i + 1])
              /\ \A i, j \in 1 .. Len(found) :
                     (i < j /\ depth(found[i]) = depth(found[j])) =>
                         IndexIn(returned', found[i]) < IndexIn(returned', found[j])
      ]_vars

\* C12 witness: find_paths returned at least three paths, two of one depth
\* and one deeper.
C12_Witness ==
    /\ Finished("find_paths")
    /\ Len(returned) >= 3
    /\ \E i, j, k \in 1 .. Len(returned) :
           /\ i < j /\ j < k
           /\ depth(returned[i]) = depth(returned[j])
           /\ depth(returned[j]) < depth(returned[k])

\* A call of shortest_path with root equal to target is being made.
SelfSearchCalled ==
    /\ pc = "idle"
    /\ call'.fn = "shortest_path"
    /\ call'.root_said = call'.target_said

\* The call returns at once, no neighbor expanded, with the zero-length path.
ZeroLengthPathReturned ==
    /\ pc' = "done"
    /\ work' = <<>>
    /\ returned' = Some(VerifiedPath(<<>>, call'.root_said, call'.root_said))

\* C13: shortest_path called with root equal to target returns a
\* zero-length path (no steps, root and target both that identifier) for
\* every max_depth and every filter setting, without expanding any neighbor.
C13_SelfPathAlways ==
    [][SelfSearchCalled => ZeroLengthPathReturned]_vars

\* C13 as it holds: the same, for an analyzer that has a neighbor function;
\* without one the call returns absent.
C13_SelfPathWithNeighborFn ==
    [][SelfSearchCalled =>
          IF _neighbor_fn # None
          THEN ZeroLengthPathReturned
          ELSE pc' = "done" /\ returned' = None
      ]_vars

\* C13 witness: shortest_path from the root to the root has returned with
\* max_depth 0 and both filters set, on a graph in which the root has an
\* outgoing edge.
C13_Witness ==
    /\ Finished("shortest_path")
    /\ call.root_said = call.target_said
    /\ call.max_depth = 0
    /\ call.edge_type_filter # None /\ call.operator_filter # None
    /\ returned # None
    /\ \E e \in _neighbor_fn[1] : e.source = call.root_said

\* C14: operator_satisfies(actual, required) is true exactly for the ten
\* pairs of the table of I2I > DI2I > NI2I > ANY (AtLeastAsStrong) and
\* false for the other six pairs over the four operators.
C14_OperatorTableExact ==
    \A k \in 1 .. Len(verdicts) :
        verdicts[k] = (operands[k] \in AtLeastAsStrong)

\* C14 witness: a caller has asked whether DI2I satisfies NI2I, answered
\* true, and whether NI2I satisfies DI2I, answered false.
C14_Witness ==
    /\ Len(verdicts) = 2
    /\ operands[1] = <<"DI2I", "NI2I">> /\ verdicts[1] = TRUE
    /\ operands[2] = <<"NI2I", "DI2I">> /\ verdicts[2] = FALSE

(***************************************************************************)
(* CLAIMS ABOUT THE TEMPORAL VERIFIER                                      *)
(***************************************************************************)

\* verify_at_keystate has returned.
Verified == verdict # None /\ verdict[1].op = "verify_at_keystate"

\* The snapshot the resolver holds for the state a call asked for: the one
\* at (issuer, seq), or the issuer's current one when seq is absent.
RequestedSnapshot(v) ==
    IF v.seq # None
    THEN _cache[<<v.issuer_aid, v.seq[1]>>]
    ELSE _current[v.issuer_aid]

\* C15: verify_at_keystate returns an invalid result with no snapshot when
\* the issuer's snapshot at seq does not resolve; otherwise it attaches that
\* snapshot, is valid when verify_fn is absent, and is as valid as
\* verify_fn says of the keys of the snapshot at the requested seq when
\* verify_fn is given and returns.
C15_VerifiedAgainstRequestedState ==
    Verified =>
        LET v == verdict[1]
            out == v.outcome
        IN  /\ ret.op = "resolve" /\ ret.aid = v.issuer_aid /\ ret.seq = v.seq
            /\ out.credential_said = v.said
            /\ ret.result = None => (~out.valid /\ out.snapshot = None)
            /\ ret.result # None =>
                   /\ out.snapshot = Some(RequestedSnapshot(v))
                   /\ out.snapshot[1].aid = v.issuer_aid
                   /\ v.seq # None => out.snapshot[1].seq = v.seq[1]
                   /\ v.verify_fn = None => out.valid
                   /\ (/\ v.verify_fn # None
                       /\ v.verify_fn[1][RequestedSnapshot(v).keys] # "raise") =>
                          (out.valid <=>
                              v.verify_fn[1][RequestedSnapshot(v).keys] = "true")

\* C15 witness: a credential was verified at sequence number 0, where the
\* issuer had the keys k1, with a verify_fn that accepts only k2, the keys
\* of the issuer's current state; it was found invalid.
C15_Witness ==
    /\ Verified
    /\ verdict[1].seq = Some(0)
    /\ verdict[1].verify_fn # None
    /\ verdict[1].verify_fn[1]["k2"] = "true"
    /\ verdict[1].verify_fn[1]["k1"] = "false"
    /\ ~verdict[1].outcome.valid
    /\ verdict[1].outcome.snapshot # None
    /\ verdict[1].outcome.snapshot[1].keys = "k1"
    /\ _current[verdict[1].issuer_aid].keys = "k2"

\* C16: if verify_fn raises an exception, verify_at_keystate returns an
\* invalid result that carries the error text in its message and the
\* resolved issuer snapshot.
C16_VerifyFnErrorCaught ==
    (/\ Verified
     /\ ret.result # None
     /\ verdict[1].verify_fn # None
     /\ verdict[1].verify_fn[1][ret.result[1].keys] = "raise") =>
        LET out == verdict[1].outcome
        IN  /\ ~out.valid
            /\ out.message = Message("Verification error", ErrorText)
            /\ out.snapshot = ret.result

\* C16 witness: verify_fn raised on the keys of a snapshot that the lookup
\* had just supplied.
C16_Witness ==
    /\ Verified
    /\ ret.result # None /\ ret.lookup = "kever"
    /\ verdict[1].verify_fn # None
    /\ verdict[1].verify_fn[1][ret.result[1].keys] = "raise"

NewestFirst == [i \in 1 .. MaxVersions |-> Version(MaxVersions + 1 - i)]

\* C25: once every version of a linear supersession lineage is registered,
\* in any registration order, resolve_chain(s) returns for every member s
\* the same chain (all versions, newest first, oldest last),
\* resolve_active(s) returns the newest version, and resolve(s) returns
\* exactly the version s.
C25_ChainFromAnyMember ==
    (answer.complete /\ answer.said \in LineageSaids) =>
        /\ answer.op = "resolve_chain" => answer.result = NewestFirst
        /\ answer.op = "resolve_active" => answer.result = Some(NewestFirst[1])
        /\ answer.op = "resolve" =>
               /\ answer.result # None
               /\ answer.result[1] \in Lineage
               /\ answer.result[1].said = answer.said

\* C25 witness: the versions were registered newest first, and the chain
\* asked from the oldest version came back whole.
C25_Witness ==
    /\ answer.complete
    /\ answer.op = "resolve_chain"
    /\ answer.said = "EV1"
    /\ registration = [i \in 1 .. MaxVersions |-> VersionSaids[MaxVersions + 1 - i]]
    /\ answer.result = NewestFirst

(***************************************************************************)
(* CLAIMS ABOUT THE PARSER                                                 *)
(***************************************************************************)

\* The operation fields of a query that are set.
OperationsSet(q) ==
    {f \in {"match", "resolve", "traverse", "verify"} :
        CASE f = "match" -> q.match # None
          [] f = "resolve" -> q.resolve # None
          [] f = "traverse" -> q.traverse # None
          [] OTHER -> q.verify # None}

\* The operation field that belongs to an operation keyword.
FieldOf(keyword) ==
    CASE keyword = "MATCH" -> "match"
      [] keyword = "RESOLVE" -> "resolve"
      [] keyword = "TRAVERSE" -> "traverse"
      [] OTHER -> "verify"

\* C24: every query that parse() produces for an accepted text has exactly
\* one of its four operation fields (match, resolve, traverse, verify) set,
\* never none and never two, and it is the field of the operation keyword
\* that the text used.
C24_ExactlyOneOperation ==
    parsed # None =>
        OperationsSet(parsed[1]) = {FieldOf(query_string[1].operation.keyword)}

\* C24 witness: a TRAVERSE text inside a context was parsed into a query with
\* its traverse field set.
C24_Witness ==
    /\ parsed # None
    /\ query_string[1].operation.keyword = "TRAVERSE"
    /\ query_string[1].context.keystate # None
    /\ parsed[1].traverse # None
    /\ parsed[1].keystate_context # None

\* The plain condition that a written condition wraps in NOT and
\* parentheses.
RECURSIVE PlainOf(_)
PlainOf(c) == IF c.form \in {"not", "paren"} THEN PlainOf(c.inner[1]) ELSE c

\* Whether a written condition is prefixed by NOT, parentheses aside.
RECURSIVE PrefixedByNot(_)
PrefixedByNot(c) ==
    \/ c.form = "not"
    \/ c.form = "paren" /\ PrefixedByNot(c.inner[1])

\* The value that a written value denotes.
ValueOf(v) ==
    IF v.kind = "STRING" THEN Item("str", v.value) ELSE Item("int", IntOf[v.value])

\* The parsed condition cond records the written condition c.
Records(cond, c) ==
    LET plain == PlainOf(c)
    IN  /\ cond.comparator = Upper(plain.comparator)
        /\ plain.form = "in" =>
               /\ cond.value # None
               /\ cond.value[1].tag = "list"
               /\ cond.value[1].val =
                      [i \in 1 .. Len(plain.values) |-> ValueOf(plain.values[i])]
        /\ cond.negated = PrefixedByNot(c)

\* The conditions written in the WHERE clause of the text.
WrittenConditions == query_string[1].modifiers.where

\* C26: for every WHERE condition form of the grammar the parsed Condition
\* records what was written: its comparator is the one in the text (IN for
\* "field IN (v1, ..., vn)", the value then being the list of the n values)
\* and its negated flag is true exactly when the condition was prefixed by
\* NOT.
C26_ConditionAsWritten ==
    (parsed # None /\ WrittenConditions # <<>>) =>
        /\ parsed[1].where # None
        /\ Len(parsed[1].where[1].conditions) = Len(WrittenConditions)
        /\ \A i \in 1 .. Len(WrittenConditions) :
               Records(parsed[1].where[1].conditions[i], WrittenConditions[i])

\* The conditions written as "field comparator value", without NOT, are
\* recorded as written.
C26_PlainComparisonAsWritten ==
    (/\ parsed # None
     /\ WrittenConditions # <<>>
     /\ \A i \in 1 .. Len(WrittenConditions) :
            PlainOf(WrittenConditions[i]).form = "compare"
            /\ ~PrefixedByNot(WrittenConditions[i])) =>
        C26_ConditionAsWritten

\* The direction that an arrow denotes.
DirectionOf(arrow) == IF arrow = "->" THEN "outgoing" ELSE "incoming"

\* C27: the EdgePattern built for an edge pattern records the direction
\* that was written, "outgoing" for "-[...]->" and "incoming" for
\* "<-[...]-", in MATCH patterns and in a TRAVERSE VIA clause.
C27_DirectionAsWritten ==
    parsed # None =>
        LET op == query_string[1].operation
        IN  /\ op.keyword = "MATCH" =>
                   /\ parsed[1].match # None
                   /\ Len(parsed[1].match[1].patterns) = Len(op.patterns)
                   /\ \A i \in 1 .. Len(op.patterns) :
                          op.patterns[i].edge # None =>
                              /\ parsed[1].match[1].patterns[i][2] # None
                              /\ parsed[1].match[1].patterns[i][2][1].direction =
                                     DirectionOf(op.patterns[i].edge[1].arrow)
            /\ (op.keyword = "TRAVERSE" /\ op.via # None) =>
                   /\ parsed[1].traverse # None
                   /\ parsed[1].traverse[1].via_edge # None
                   /\ parsed[1].traverse[1].via_edge[1].direction =
                          DirectionOf(op.via[1].arrow)

\* The edge patterns written with "-[...]->" are recorded as outgoing.
C27_OutgoingAsWritten ==
    (/\ parsed # None
     /\ LET op == query_string[1].operation
        IN  /\ op.keyword = "MATCH" =>
                   \A i \in 1 .. Len(op.patterns) :
                       op.patterns[i].edge # None => op.patterns[i].edge[1].arrow = "->"
            /\ (op.keyword = "TRAVERSE" /\ op.via # None) => op.via[1].arrow = "->") =>
        C27_DirectionAsWritten

=============================================================================
